---- MODULE Spec2Model ----
(***************************************************************************)
(* State-machine model of nlpo_toolkit: the chunker and the streaming noun *)
(* counter of nlpo_toolkit/nlp.py, and the rule-based cleaning engine of   *)
(* nlpo_toolkit/latin/cleaners/cleaners.py.                                *)
(*                                                                         *)
(* Texts are sequences of one-character strings.  Offsets keep Python's    *)
(* 0-based convention: text[i:j] is SubSeq(text, i + 1, j).                *)
(***************************************************************************)
EXTENDS Integers, Sequences, FiniteSets, Bags, TLC

VARIABLES
    comp,             \* which component this behaviour exercises
    text,             \* the text argument
    chunk_chars,      \* the chunk_chars argument
    i,                \* iter_char_chunks: the offset i
    chunks,           \* the chunks yielded so far, in order
    pc,               \* position of the running call
    cfg,              \* the remaining arguments of count_nouns_streaming
    total,            \* the Counter under construction / returned
    ref_tag_counter,  \* the caller's ref_tag_counter (a bag of labels)
    k,                \* enumerate(..., 1) index of the last chunk
    nlp_calls,        \* the chunks the annotator was called with, in order
    trace_file,       \* the trace TSV: [exists, rows]
    trace_before,     \* the trace TSV as it was before the call
    rows_written,
    trace_enabled,
    global_row,
    chunk_base_offset,
    lex_text,         \* apply_lexicon_map: text; load_lexicon_map_tsv: the file
    lex_map,          \* the mapping, insertion-ordered [src, dst] pairs
    lex_scan,         \* pat.sub: [pos, out, hits]
    lex_lines,        \* load_lexicon_map_tsv: the lines read
    lex_idx,          \* load_lexicon_map_tsv: lines processed
    pool,             \* the inputs the calls of this behaviour draw from
    ref_log,          \* the provenance TSV: [exists, rows]
    log_preexisted,   \* whether the provenance TSV existed before the first call
    calls,            \* clean_text calls made
    args,             \* the arguments of the clean_text call about to be made
    last,             \* arguments and outcome of the last clean_text call
    rule_file,          \* load_patterns_from_yaml: the file being loaded
    rule_idx,           \* items of the current list gone through
    remove_line_rules,  \* the LineRemoveRule list under construction
    substitute_rules,   \* the SubstituteRule list under construction
    main_argv,          \* run_clean_corpus.main: argv
    main_fs,            \* the file system: [config_at, dirs, files, undecodable]
    yaml_data,          \* what load_clean_config returns for the config file
    main_loc,           \* the local variables of main
    main_reads,         \* the paths read_text was called on, in order
    main_calls,         \* the clean_text calls, in order
    main_writes,        \* the write_text calls, in order: [path, text]
    main_result,        \* "running", 0 or the exception that left main
    post_text,          \* the text handed to the whitespace post-processing
    post_outs,          \* what its successive applications returned
    pipe_args,          \* build_stanza_pipeline: the arguments
    pipe_env,           \* what stanza does: the outcome of each of its calls
    pipe_package,       \* the local variable package
    pipe_log,           \* the stanza calls made, in order
    pipe_result         \* "running", "returned" or the exception raised

chunkerVars == <<text, chunk_chars, i, chunks>>
streamVars == <<cfg, total, ref_tag_counter, k, nlp_calls, trace_file, trace_before,
                rows_written, trace_enabled, global_row, chunk_base_offset>>

lexVars == <<lex_text, lex_map, lex_scan, lex_lines, lex_idx>>
cleanVars == <<pool, ref_log, log_preexisted, calls, args, last>>
ruleVars == <<rule_file, rule_idx, remove_line_rules, substitute_rules>>
mainVars == <<main_argv, main_fs, yaml_data, main_loc, main_reads, main_calls,
              main_writes, main_result>>
postVars == <<post_text, post_outs>>
pipeVars == <<pipe_args, pipe_env, pipe_package, pipe_log, pipe_result>>
moreVars == <<postVars, pipeVars>>
restVars == <<ruleVars, mainVars, moreVars>>

vars == <<comp, pc, chunkerVars, streamVars, lexVars, cleanVars, restVars>>

-----------------------------------------------------------------------------
(* Bounds of the model *)

MaxTextLen == 5
MaxChunk == 3
MaxStreamLen == 3
MaxCap == 2
MaxLexLen == 4
MaxLexLines == 2
MaxLines == 3
MaxCalls == 2
MaxRuleEntries == 2
MaxSubEntries == 1
MaxPostLines == 4
SmallSnippet == 2
MaxPostLen == 5
MaxPasses == 2

-----------------------------------------------------------------------------
(* Generic helpers *)

Max(S) == CHOOSE x \in S : \A y \in S : y <= x
Min(S) == CHOOSE x \in S : \A y \in S : x <= y

SeqsUpTo(A, n) == UNION {[1..m -> A] : m \in 0..n}

RECURSIVE Concat(_)
Concat(ss) == IF ss = <<>> THEN <<>> ELSE Head(ss) \o Concat(Tail(ss))

RECURSIVE SortedSeq(_)
SortedSeq(S) == IF S = {} THEN <<>>
                ELSE LET m == Min(S) IN <<m>> \o SortedSeq(S \ {m})

-----------------------------------------------------------------------------
(* Strings *)

\* str.isspace for the characters of the model
IsSpace(ch) == ch \in {" ", "\n", "\t"}

\* str.strip()
Strip(s) ==
    LET keep == {p \in 1..Len(s) : ~IsSpace(s[p])}
    IN IF keep = {} THEN <<>> ELSE SubSeq(s, Min(keep), Max(keep))

LowerChar(ch) == IF ch = "A" THEN "a" ELSE IF ch = "B" THEN "b" ELSE ch

\* str.lower()
Lower(s) == [p \in 1..Len(s) |-> LowerChar(s[p])]

-----------------------------------------------------------------------------
(* The annotator: the external callable nlp(chunk).  It is modelled as a     *)
(* whitespace tokenizer that makes one sentence of every line holding a      *)
(* token and tags every token by itself: a token starting with "A" is a      *)
(* NOUN, any other a VERB.  cfg.shape says which sequences its sentences     *)
(* expose: "tokens" (tokens holding words, as the tests' dummies), "words"   *)
(* (words only), "both" (tokens and words, as a Stanza sentence), "bare"     *)
(* (tokens without words).  cfg.offsets says whether start_char is present.  *)

Upos(w) == IF w[1] = "A" THEN "NOUN" ELSE "VERB"

\* a one-letter token has no lemma; otherwise the lemma drops the last letter
Lemma(w) == IF Len(w) = 1 THEN <<>> ELSE SubSeq(w, 1, Len(w) - 1)

TokenStarts(c, lo, hi) ==
    {p \in lo..hi : ~IsSpace(c[p]) /\ (p = 1 \/ IsSpace(c[p - 1]))}

TokenEnd(c, p) == Min({q \in p..Len(c) : q = Len(c) \/ IsSpace(c[q + 1])})

LineStarts(c) == {p \in 1..Len(c) : c[p] # "\n" /\ (p = 1 \/ c[p - 1] = "\n")}

LineEnd(c, p) == Min({q \in p..Len(c) : q = Len(c) \/ c[q + 1] = "\n"})

OptOffset(offsets, n) == IF offsets THEN <<n>> ELSE <<>>

MkWord(c, p, offsets) ==
    LET w == SubSeq(c, p, TokenEnd(c, p))
    IN [text |-> w, lemma |-> Lemma(w), upos |-> Upos(w),
        start_char |-> OptOffset(offsets, p - 1)]

MkToken(c, p, shape, offsets) ==
    LET w == MkWord(c, p, offsets)
    IN IF shape = "bare"
       THEN [text |-> w.text, lemma |-> w.lemma, upos |-> w.upos,
             start_char |-> w.start_char, words |-> <<>>]
       ELSE [text |-> w.text, lemma |-> <<>>, upos |-> "",
             start_char |-> w.start_char, words |-> <<w>>]

MkSentence(c, lo, shape, offsets) ==
    LET hi == LineEnd(c, lo)
        starts == SortedSeq(TokenStarts(c, lo, hi))
    IN [text |-> SubSeq(c, lo, hi),
        tokens |-> IF shape \in {"tokens", "both", "bare"}
                   THEN [n \in 1..Len(starts) |-> MkToken(c, starts[n], shape, offsets)]
                   ELSE <<>>,
        words |-> IF shape \in {"words", "both"}
                  THEN [n \in 1..Len(starts) |-> MkWord(c, starts[n], offsets)]
                  ELSE <<>>]

Annotate(c, shape, offsets) ==
    LET ls == SortedSeq({p \in LineStarts(c) : TokenStarts(c, p, LineEnd(c, p)) # {}})
    IN [sentences |-> [n \in 1..Len(ls) |-> MkSentence(c, ls[n], shape, offsets)]]

\* the ref_tag_detector of the model: the key "a" is a reference tag
Detector(key) == IF key = <<"a">> THEN "REF" ELSE ""

-----------------------------------------------------------------------------
(* count_nouns_doc and its helpers *)

\* a token used as a word-like object
WordLike(tok) == [text |-> tok.text, lemma |-> tok.lemma, upos |-> tok.upos,
                  start_char |-> tok.start_char]

\* token.words if present, else the token itself
TokenWords(tok) == IF tok.words # <<>> THEN tok.words ELSE <<WordLike(tok)>>

\* mutant of IterSentenceWords: the words are yielded and then the tokens' too
IterSentenceWords_Both(sent) ==
    sent.words \o Concat([n \in 1..Len(sent.tokens) |-> TokenWords(sent.tokens[n])])

\* _iter_sentence_words: sent.words if non-empty, else the tokens' words
IterSentenceWords(sent) ==
    IF sent.words # <<>>
    THEN sent.words
    ELSE Concat([n \in 1..Len(sent.tokens) |-> TokenWords(sent.tokens[n])])

\* _iter_sentence_words_with_offsets: (word, start) for the words of every
\* token, with the token's start_char, followed by the words of sent.words,
\* with their own start_char
IterSentenceWordsWithOffsets(sent) ==
    Concat([n \in 1..Len(sent.tokens) |->
              LET tw == TokenWords(sent.tokens[n])
              IN [m \in 1..Len(tw) |-> <<tw[m], sent.tokens[n].start_char>>]])
    \o [n \in 1..Len(sent.words) |-> <<sent.words[n], sent.words[n].start_char>>]

\* key = (lemma if use_lemma and lemma else text).strip().lower(), "" if absent
KeyOf(w, use_lemma) ==
    Lower(Strip(IF use_lemma /\ w.lemma # <<>> THEN w.lemma ELSE w.text))

\* mutant of CountWord: a hit the detector labels is counted as a noun too
CountWord_NoContinue(acc, w, c) ==
    LET key == KeyOf(w, c.use_lemma)
        tag == IF c.ref # "none" THEN Detector(key) ELSE ""
    IN IF w.upos \notin c.upos_targets \/ key = <<>> THEN acc
       ELSE [acc EXCEPT
               !.ref = IF tag # "" /\ c.ref = "counted" THEN @ (+) SetToBag({tag}) ELSE @,
               !.counter = @ (+) SetToBag({key})]

\* one word in count_nouns_doc; acc = [counter, ref]
CountWord(acc, w, c) ==
    LET key == KeyOf(w, c.use_lemma)
        tag == IF c.ref # "none" THEN Detector(key) ELSE ""
    IN IF w.upos \notin c.upos_targets \/ key = <<>> THEN acc
       ELSE IF tag # ""
       THEN [acc EXCEPT !.ref = IF c.ref = "counted" THEN @ (+) SetToBag({tag}) ELSE @]
       ELSE [acc EXCEPT !.counter = @ (+) SetToBag({key})]

RECURSIVE CountWords(_, _, _)
CountWords(acc, ws, c) ==
    IF ws = <<>> THEN acc ELSE CountWords(CountWord(acc, Head(ws), c), Tail(ws), c)

\* count_nouns_doc: the Counter of the document and the increments made to the
\* ref_tag_counter
CountNounsDoc(doc, c) ==
    CountWords([counter |-> EmptyBag, ref |-> EmptyBag],
               Concat([n \in 1..Len(doc.sentences) |-> IterSentenceWords(doc.sentences[n])]),
               c)

\* mutant of CountNouns: every text is annotated
CountNouns_AlwaysAnnotate(t, c) ==
    LET r == CountNounsDoc(Annotate(t, c.shape, c.offsets), c)
    IN [counter |-> r.counter, ref |-> r.ref, called |-> TRUE]

\* count_nouns: an empty or all-whitespace text is not annotated
CountNouns(t, c) ==
    IF t = <<>> \/ Strip(t) = <<>>
    THEN [counter |-> EmptyBag, ref |-> EmptyBag, called |-> FALSE]
    ELSE LET r == CountNounsDoc(Annotate(t, c.shape, c.offsets), c)
         IN [counter |-> r.counter, ref |-> r.ref, called |-> TRUE]

-----------------------------------------------------------------------------
(* iter_char_chunks *)

\* text.rfind(ch, lo, hi): the highest 0-based index k, lo <= k < hi, holding ch
RFind(t, ch, lo, hi) ==
    LET S == {p \in lo..(hi - 1) : p < Len(t) /\ t[p + 1] = ch}
    IN IF S = {} THEN -1 ELSE Max(S)

\* mutant of ChunkEnd: the result of rfind is used without testing it, so a
\* window without separator ends at -1 + 1
ChunkEnd_Unguarded(t, at, c) ==
    LET N == Len(t)
        j0 == IF at + c < N THEN at + c ELSE N
        k1 == RFind(t, " ", at + 1, j0)
        k2 == IF k1 = -1 THEN RFind(t, "\n", at + 1, j0) ELSE k1
    IN IF j0 < N THEN k2 + 1 ELSE j0

\* mutant of ChunkEnd: the end is snapped forward, to just after the first
\* separator at or after the size limit
ChunkEnd_SnapForward(t, at, c) ==
    LET N == Len(t)
        j0 == IF at + c < N THEN at + c ELSE N
        S == {p \in j0..(N - 1) : t[p + 1] \in {" ", "\n"}}
    IN IF j0 < N THEN (IF S = {} THEN N ELSE Min(S) + 1) ELSE j0

\* mutant of ChunkEnd: only the space is looked for, never the newline
ChunkEnd_SpaceOnly(t, at, c) ==
    LET N == Len(t)
        j0 == IF at + c < N THEN at + c ELSE N
        k1 == RFind(t, " ", at + 1, j0)
    IN IF j0 < N /\ k1 # -1 /\ k1 > at THEN k1 + 1 ELSE j0

\* the body of one loop iteration: the end j of the chunk starting at i
ChunkEnd(t, at, c) ==
    LET N == Len(t)
        j0 == IF at + c < N THEN at + c ELSE N
        k1 == RFind(t, " ", at + 1, j0)
        k2 == IF k1 = -1 THEN RFind(t, "\n", at + 1, j0) ELSE k1
    IN IF j0 < N /\ k2 # -1 /\ k2 > at THEN k2 + 1 ELSE j0

\* mutant of ChunkIter: a snapped chunk is yielded without its separator while
\* the offset still moves past it
ChunkIter_DropSeparator(t, at, c) ==
    LET j == ChunkEnd(t, at, c)
        snapped == j < Len(t) /\ j # at + c
    IN [chunk |-> IF snapped THEN SubSeq(t, at + 1, j - 1) ELSE SubSeq(t, at + 1, j),
        next |-> j]

\* what one iteration yields and where it leaves i: yield text[i:j]; i = j
ChunkIter(t, at, c) ==
    LET j == ChunkEnd(t, at, c)
    IN [chunk |-> SubSeq(t, at + 1, j), next |-> j]

\* a letter, the two separators the chunker looks for, and a whitespace
\* character it does not look for
ChunkAlphabet == {"a", " ", "\n", "\t"}

LexScanInit == [pos |-> 0, out |-> <<>>, hits |-> <<>>]
NoCall == [outcome |-> "none"]

ChunkerIdle ==
    /\ text = <<>>
    /\ chunk_chars = 1
    /\ i = 0
    /\ chunks = <<>>

LexIdle ==
    /\ lex_text = <<>>
    /\ lex_map = <<>>
    /\ lex_scan = LexScanInit
    /\ lex_lines = <<>>
    /\ lex_idx = 0

CleanIdle ==
    /\ pool = "none"
    /\ ref_log = [exists |-> FALSE, rows |-> <<>>]
    /\ log_preexisted = FALSE
    /\ calls = 0
    /\ args = NoCall
    /\ last = NoCall

NoRuleFile == [status |-> "none"]

RulesIdle ==
    /\ rule_file = NoRuleFile
    /\ rule_idx = 0
    /\ remove_line_rules = <<>>
    /\ substitute_rules = <<>>

NoLocals == [config_path |-> <<>>]

MainIdle ==
    /\ main_argv = <<>>
    /\ main_fs = [config_at |-> <<>>, dirs |-> {}, files |-> {}, undecodable |-> {}]
    /\ yaml_data = [status |-> "none"]
    /\ main_loc = NoLocals
    /\ main_reads = <<>>
    /\ main_calls = <<>>
    /\ main_writes = <<>>
    /\ main_result = "none"

NoPipeArgs == [lang |-> "none"]

PostIdle ==
    /\ post_text = <<>>
    /\ post_outs = <<>>

PipeIdle ==
    /\ pipe_args = NoPipeArgs
    /\ pipe_env = [first |-> "none"]
    /\ pipe_package = "none"
    /\ pipe_log = <<>>
    /\ pipe_result = "none"

MoreIdle == PostIdle /\ PipeIdle

RestIdle == RulesIdle /\ MainIdle /\ MoreIdle

NoCfg == [mode |-> "none"]
NoFile == [exists |-> FALSE, rows |-> <<>>]

StreamIdle ==
    /\ cfg = NoCfg
    /\ total = EmptyBag
    /\ ref_tag_counter = EmptyBag
    /\ k = 0
    /\ nlp_calls = <<>>
    /\ trace_file = NoFile
    /\ trace_before = NoFile
    /\ rows_written = 0
    /\ trace_enabled = FALSE
    /\ global_row = 0
    /\ chunk_base_offset = 0

InitChunk ==
    /\ comp = "chunker"
    /\ text \in SeqsUpTo(ChunkAlphabet, MaxTextLen)
    /\ chunk_chars \in 1..MaxChunk
    /\ i = 0
    /\ chunks = <<>>
    /\ pc = "loop"
    /\ StreamIdle
    /\ LexIdle
    /\ CleanIdle
    /\ RestIdle

\* one iteration of the while loop: yield text[i:j], i = j
ChunkStep ==
    /\ comp = "chunker"
    /\ pc = "loop"
    /\ i < Len(text)
    /\ LET it == ChunkIter(text, i, chunk_chars)
       IN /\ chunks' = Append(chunks, it.chunk)
          /\ i' = it.next
    /\ UNCHANGED <<restVars, lexVars, cleanVars, comp, pc, text, chunk_chars, streamVars>>

\* the loop condition fails: the generator is exhausted
ChunkExhaust ==
    /\ comp = "chunker"
    /\ pc = "loop"
    /\ i >= Len(text)
    /\ pc' = "done"
    /\ UNCHANGED <<restVars, lexVars, cleanVars, comp, chunkerVars, streamVars>>

NextChunk == ChunkStep \/ ChunkExhaust

SpecChunk == InitChunk /\ [][NextChunk]_vars

\* the generator driven to exhaustion, as by a for loop over it: the loop keeps
\* asking for the next chunk as long as the generator can take a step
SpecChunkLoop == InitChunk /\ [][NextChunk]_vars /\ WF_vars(NextChunk)

-----------------------------------------------------------------------------
(* count_nouns_streaming: the fast path and the trace path *)

TraceHeader ==
    [kind |-> "header",
     cols |-> <<"label", "chunk", "sent_idx", "token_idx",
                "token_char_start_in_chunk", "token_char_start_in_text",
                "sentence", "token", "lemma", "upos", "ref_tag", "global_row">>]

\* mutant of TraceWord: a hit is counted only while rows are still written
TraceWord_StopCounting(st, pair, t_i, s_i, sent_text, kidx, base, c) ==
    LET wd == pair[1]
        start == pair[2]
        key == KeyOf(wd, c.use_lemma)
        tag == IF key # <<>> /\ c.ref # "none" THEN Detector(key) ELSE ""
        row == [kind |-> "data", label |-> c.label, chunk |-> kidx,
                sent_idx |-> s_i, token_idx |-> t_i, sic |-> start,
                sit |-> IF start = <<>> THEN <<>> ELSE <<base + start[1]>>,
                sentence |-> sent_text, token |-> wd.text, lemma |-> wd.lemma,
                upos |-> wd.upos, ref_tag |-> tag,
                global_row |-> st.global_row + 1]
    IN IF wd.upos \notin c.upos_targets \/ ~st.trace_enabled THEN st
       ELSE [total |-> IF key # <<>> /\ tag = "" THEN st.total (+) SetToBag({key})
                       ELSE st.total,
             ref |-> IF tag # "" /\ c.ref = "counted" THEN st.ref (+) SetToBag({tag})
                     ELSE st.ref,
             rows |-> Append(st.rows, row),
             rows_written |-> st.rows_written + 1,
             global_row |-> st.global_row + 1,
             trace_enabled |-> ~(c.cap # 0 /\ st.rows_written + 1 >= c.cap)]

\* mutant of TraceWord: the text offset is the offset in the chunk
TraceWord_NoBase(st, pair, t_i, s_i, sent_text, kidx, base, c) ==
    LET wd == pair[1]
        start == pair[2]
        key == KeyOf(wd, c.use_lemma)
        tag == IF key # <<>> /\ c.ref # "none" THEN Detector(key) ELSE ""
        counted == [st EXCEPT
                      !.total = IF key # <<>> /\ tag = "" THEN @ (+) SetToBag({key}) ELSE @,
                      !.ref = IF tag # "" /\ c.ref = "counted" THEN @ (+) SetToBag({tag}) ELSE @]
        row == [kind |-> "data", label |-> c.label, chunk |-> kidx,
                sent_idx |-> s_i, token_idx |-> t_i, sic |-> start,
                sit |-> start,
                sentence |-> sent_text, token |-> wd.text, lemma |-> wd.lemma,
                upos |-> wd.upos, ref_tag |-> tag,
                global_row |-> st.global_row + 1]
    IN IF wd.upos \notin c.upos_targets THEN st
       ELSE IF ~st.trace_enabled THEN counted
       ELSE [counted EXCEPT
               !.rows = Append(@, row),
               !.rows_written = @ + 1,
               !.global_row = @ + 1,
               !.trace_enabled = ~(c.cap # 0 /\ st.rows_written + 1 >= c.cap)]

\* the body of the innermost loop of _count_nouns_streaming_trace for one
\* (word, start_in_chunk); st = [total, ref, rows, rows_written, global_row,
\* trace_enabled]
TraceWord(st, pair, t_i, s_i, sent_text, kidx, base, c) ==
    LET wd == pair[1]
        start == pair[2]
        key == KeyOf(wd, c.use_lemma)
        tag == IF key # <<>> /\ c.ref # "none" THEN Detector(key) ELSE ""
        counted == [st EXCEPT
                      !.total = IF key # <<>> /\ tag = "" THEN @ (+) SetToBag({key}) ELSE @,
                      !.ref = IF tag # "" /\ c.ref = "counted" THEN @ (+) SetToBag({tag}) ELSE @]
        row == [kind |-> "data", label |-> c.label, chunk |-> kidx,
                sent_idx |-> s_i, token_idx |-> t_i, sic |-> start,
                sit |-> IF start = <<>> THEN <<>> ELSE <<base + start[1]>>,
                sentence |-> sent_text, token |-> wd.text, lemma |-> wd.lemma,
                upos |-> wd.upos, ref_tag |-> tag,
                global_row |-> st.global_row + 1]
    IN IF wd.upos \notin c.upos_targets THEN st
       ELSE IF ~st.trace_enabled THEN counted
       ELSE [counted EXCEPT
               !.rows = Append(@, row),
               !.rows_written = @ + 1,
               !.global_row = @ + 1,
               !.trace_enabled = ~(c.cap # 0 /\ st.rows_written + 1 >= c.cap)]

RECURSIVE TraceWords(_, _, _, _, _, _, _, _)
TraceWords(st, pairs, t_i, s_i, sent_text, kidx, base, c) ==
    IF t_i > Len(pairs) THEN st
    ELSE TraceWords(TraceWord(st, pairs[t_i], t_i, s_i, sent_text, kidx, base, c),
                    pairs, t_i + 1, s_i, sent_text, kidx, base, c)

\* the loop over the sentences of one document
RECURSIVE TraceSentences(_, _, _, _, _, _)
TraceSentences(st, sents, s_i, kidx, base, c) ==
    IF s_i > Len(sents) THEN st
    ELSE LET sent_text == IF st.trace_enabled THEN sents[s_i].text ELSE <<>>
         IN TraceSentences(
                TraceWords(st, IterSentenceWordsWithOffsets(sents[s_i]), 1, s_i,
                           sent_text, kidx, base, c),
                sents, s_i + 1, kidx, base, c)

\* mutant of Accumulate: the chunk's counter replaces the running total
Accumulate_Overwrite(tot, nouns) == nouns

\* total.update(nouns)
Accumulate(tot, nouns) == tot (+) nouns

StreamAlphabet == {"A", "b", " ", "\n"}

Shapes == {"tokens", "words", "both", "bare"}
RefModes == {"none", "detector", "counted"}

MkCfg(mode, shape, offsets, use_lemma, ref, cap) ==
    [mode |-> mode, shape |-> shape, offsets |-> offsets, use_lemma |-> use_lemma,
     ref |-> ref, cap |-> cap, upos_targets |-> {"NOUN"}, label |-> "L"]

\* the calls of the fast path and of the trace path without a row cap
StreamCfgs ==
    {MkCfg(m, sh, TRUE, ul, r, 0) :
        m \in {"fast", "trace"}, sh \in Shapes, ul \in BOOLEAN, r \in RefModes}

\* the calls of the trace path, with and without a row cap and offsets
TraceCfgs ==
    {MkCfg("trace", sh, off, TRUE, r, cap) :
        sh \in {"tokens", "words"}, off \in BOOLEAN, r \in {"none", "counted"},
        cap \in 0..MaxCap}

\* a trace file left by an earlier run
OldTraceFile ==
    [exists |-> TRUE,
     rows |-> <<TraceHeader,
                [kind |-> "data", label |-> "old", chunk |-> 1, sent_idx |-> 1,
                 token_idx |-> 1, sic |-> <<0>>, sit |-> <<0>>, sentence |-> <<"A">>,
                 token |-> <<"A">>, lemma |-> <<>>, upos |-> "NOUN", ref_tag |-> "",
                 global_row |-> 1]>>]

InitStreamWith(cfgs, files) ==
    /\ comp = "stream"
    /\ pc = "start"
    /\ text \in SeqsUpTo(StreamAlphabet, MaxStreamLen)
    /\ chunk_chars \in 1..MaxChunk
    /\ i = 0
    /\ chunks = <<>>
    /\ cfg \in cfgs
    /\ total = EmptyBag
    /\ ref_tag_counter = EmptyBag
    /\ k = 0
    /\ nlp_calls = <<>>
    /\ trace_file \in files
    /\ trace_before = trace_file
    /\ rows_written = 0
    /\ trace_enabled = FALSE
    /\ global_row = 0
    /\ chunk_base_offset = 0
    /\ LexIdle
    /\ CleanIdle
    /\ RestIdle

InitStream == InitStreamWith(StreamCfgs, {NoFile})
InitTrace == InitStreamWith(TraceCfgs, {NoFile, OldTraceFile})

\* entry of _count_nouns_streaming_fast: total = Counter(); empty text returns
FastStart ==
    /\ comp = "stream" /\ pc = "start" /\ cfg.mode = "fast"
    /\ pc' = IF text = <<>> THEN "done" ELSE "loop"
    /\ UNCHANGED <<restVars, lexVars, cleanVars, comp, chunkerVars, streamVars>>

\* one iteration of the fast path's loop over the chunks
FastChunk ==
    /\ comp = "stream" /\ pc = "loop" /\ cfg.mode = "fast"
    /\ i < Len(text)
    /\ LET it == ChunkIter(text, i, chunk_chars)
           r == CountNouns(it.chunk, cfg)
       IN /\ chunks' = Append(chunks, it.chunk)
          /\ i' = it.next
          /\ k' = k + 1
          /\ nlp_calls' = IF r.called THEN Append(nlp_calls, it.chunk) ELSE nlp_calls
          /\ total' = Accumulate(total, r.counter)
          /\ ref_tag_counter' = ref_tag_counter (+) r.ref
          /\ pc' = IF it.next < Len(text) THEN "loop" ELSE "done"
    /\ UNCHANGED <<restVars, lexVars, cleanVars, comp, text, chunk_chars, cfg, trace_file,
                   trace_before, rows_written, trace_enabled, global_row,
                   chunk_base_offset>>

\* mutant of TraceStart: the trace file is opened for appending
TraceStart_Append ==
    /\ comp = "stream" /\ pc = "start" /\ cfg.mode = "trace"
    /\ IF text = <<>>
       THEN /\ pc' = "done"
            /\ UNCHANGED <<trace_file, trace_enabled>>
       ELSE /\ pc' = "loop"
            /\ trace_file' = [exists |-> TRUE, rows |-> Append(trace_file.rows, TraceHeader)]
            /\ trace_enabled' = TRUE
    /\ rows_written' = 0
    /\ global_row' = 0
    /\ chunk_base_offset' = 0
    /\ UNCHANGED <<restVars, lexVars, cleanVars, comp, chunkerVars, cfg, total, ref_tag_counter, k,
                   nlp_calls, trace_before>>

\* entry of _count_nouns_streaming_trace: empty text returns at once; else
\* the trace file is opened for writing and the header row written
TraceStart ==
    /\ comp = "stream" /\ pc = "start" /\ cfg.mode = "trace"
    /\ IF text = <<>>
       THEN /\ pc' = "done"
            /\ UNCHANGED <<trace_file, trace_enabled>>
       ELSE /\ pc' = "loop"
            /\ trace_file' = [exists |-> TRUE, rows |-> <<TraceHeader>>]
            /\ trace_enabled' = TRUE
    /\ rows_written' = 0
    /\ global_row' = 0
    /\ chunk_base_offset' = 0
    /\ UNCHANGED <<restVars, lexVars, cleanVars, comp, chunkerVars, cfg, total, ref_tag_counter, k,
                   nlp_calls, trace_before>>

\* mutant of TraceChunk: the row numbers start again in every chunk
TraceChunk_RowsPerChunk ==
    /\ comp = "stream" /\ pc = "loop" /\ cfg.mode = "trace"
    /\ i < Len(text)
    /\ LET it == ChunkIter(text, i, chunk_chars)
           doc == Annotate(it.chunk, cfg.shape, cfg.offsets)
           st == TraceSentences(
                    [total |-> total, ref |-> ref_tag_counter,
                     rows |-> trace_file.rows, rows_written |-> rows_written,
                     global_row |-> 0, trace_enabled |-> trace_enabled],
                    doc.sentences, 1, k + 1, chunk_base_offset, cfg)
       IN /\ chunks' = Append(chunks, it.chunk)
          /\ i' = it.next
          /\ k' = k + 1
          /\ nlp_calls' = Append(nlp_calls, it.chunk)
          /\ total' = st.total
          /\ ref_tag_counter' = st.ref
          /\ trace_file' = [trace_file EXCEPT !.rows = st.rows]
          /\ rows_written' = st.rows_written
          /\ global_row' = st.global_row
          /\ trace_enabled' = st.trace_enabled
          /\ chunk_base_offset' = chunk_base_offset + Len(it.chunk)
          /\ pc' = IF it.next < Len(text) THEN "loop" ELSE "done"
    /\ UNCHANGED <<restVars, lexVars, cleanVars, comp, text, chunk_chars, cfg, trace_before>>

\* one iteration of the trace path's loop over the chunks
TraceChunk ==
    /\ comp = "stream" /\ pc = "loop" /\ cfg.mode = "trace"
    /\ i < Len(text)
    /\ LET it == ChunkIter(text, i, chunk_chars)
           doc == Annotate(it.chunk, cfg.shape, cfg.offsets)
           st == TraceSentences(
                    [total |-> total, ref |-> ref_tag_counter,
                     rows |-> trace_file.rows, rows_written |-> rows_written,
                     global_row |-> global_row, trace_enabled |-> trace_enabled],
                    doc.sentences, 1, k + 1, chunk_base_offset, cfg)
       IN /\ chunks' = Append(chunks, it.chunk)
          /\ i' = it.next
          /\ k' = k + 1
          /\ nlp_calls' = Append(nlp_calls, it.chunk)
          /\ total' = st.total
          /\ ref_tag_counter' = st.ref
          /\ trace_file' = [trace_file EXCEPT !.rows = st.rows]
          /\ rows_written' = st.rows_written
          /\ global_row' = st.global_row
          /\ trace_enabled' = st.trace_enabled
          /\ chunk_base_offset' = chunk_base_offset + Len(it.chunk)
          /\ pc' = IF it.next < Len(text) THEN "loop" ELSE "done"
    /\ UNCHANGED <<restVars, lexVars, cleanVars, comp, text, chunk_chars, cfg, trace_before>>

NextStream == FastStart \/ FastChunk \/ TraceStart \/ TraceChunk
NextTrace == TraceStart \/ TraceChunk

SpecStream == InitStream /\ [][NextStream]_vars
SpecTrace == InitTrace /\ [][NextTrace]_vars

-----------------------------------------------------------------------------
(* cleaners.py: regular expressions of the model.  A rule pattern is a      *)
(* literal: pattern.match(s) holds when s starts with it, findall and sub   *)
(* take its non-overlapping occurrences from left to right.                 *)

IsPrefix(p, s) == Len(p) <= Len(s) /\ SubSeq(s, 1, Len(p)) = p

MatchesAt(p, s, at) == at + Len(p) - 1 <= Len(s) /\ SubSeq(s, at, at + Len(p) - 1) = p

\* len(pattern.findall(s)), scanning from position at
RECURSIVE FindAllCount(_, _, _)
FindAllCount(p, s, at) ==
    IF at > Len(s) THEN 0
    ELSE IF MatchesAt(p, s, at) THEN 1 + FindAllCount(p, s, at + Len(p))
    ELSE FindAllCount(p, s, at + 1)

\* pattern.sub(repl, s), scanning from position at
RECURSIVE ReSub(_, _, _, _)
ReSub(p, repl, s, at) ==
    IF at > Len(s) THEN <<>>
    ELSE IF MatchesAt(p, s, at) THEN repl \o ReSub(p, repl, s, at + Len(p))
    ELSE <<s[at]>> \o ReSub(p, repl, s, at + 1)

\* re.sub(ch{n,}, ch * m, s): every maximal run of at least n ch becomes m ch
RECURSIVE CollapseRuns(_, _, _, _, _)
CollapseRuns(s, ch, n, m, at) ==
    IF at > Len(s) THEN <<>>
    ELSE IF s[at] # ch THEN <<s[at]>> \o CollapseRuns(s, ch, n, m, at + 1)
    ELSE LET stop == Min({q \in at..Len(s) : q = Len(s) \/ s[q + 1] # ch})
             run == stop - at + 1
         IN [x \in 1..(IF run >= n THEN m ELSE run) |-> ch]
            \o CollapseRuns(s, ch, n, m, stop + 1)

\* str.splitlines() for "\n" line ends
RECURSIVE SplitLines(_)
SplitLines(s) ==
    IF s = <<>> THEN <<>>
    ELSE LET nl == {q \in 1..Len(s) : s[q] = "\n"}
         IN IF nl = {} THEN <<s>>
            ELSE <<SubSeq(s, 1, Min(nl) - 1)>>
                 \o SplitLines(SubSeq(s, Min(nl) + 1, Len(s)))

\* "\n".join(lines)
RECURSIVE JoinLines(_)
JoinLines(ls) ==
    IF ls = <<>> THEN <<>>
    ELSE IF Len(ls) = 1 THEN ls[1]
    ELSE ls[1] \o <<"\n">> \o JoinLines(Tail(ls))

\* raw_line.rstrip("\n")
RStripNewline(s) ==
    LET keep == {q \in 1..Len(s) : s[q] # "\n"}
    IN IF keep = {} THEN <<>> ELSE SubSeq(s, 1, Max(keep))

\* line.replace("\t", " ")
TabsToSpaces(s) == [q \in 1..Len(s) |-> IF s[q] = "\t" THEN " " ELSE s[q]]

\* s[:n]
Truncate(s, n) == IF Len(s) <= n THEN s ELSE SubSeq(s, 1, n)

HeaderHashMin == 5
SnippetChars == 200

\* HEADER_HASH_RE.match(line): ^\s*#{5,}\s*$
HeaderHashMatch(line) ==
    LET t == Strip(line)
    IN Len(t) >= HeaderHashMin /\ \A q \in 1..Len(t) : t[q] = "#"

-----------------------------------------------------------------------------
(* flatten_ref and load_patterns_from_yaml *)

NoRef == [type |-> "none"]
StrRef(str) == [type |-> "str", s |-> str]

\* flatten_ref: None, a string "Author:Work", or a dict
FlattenRef(ref) ==
    LET empty == [ref_key |-> <<>>, ref_author |-> <<>>, ref_work |-> <<>>,
                  ref_loc |-> <<>>]
    IN IF ref.type = "none" THEN empty
       ELSE IF ref.type = "str"
       THEN LET t == Strip(ref.s)
                colons == {q \in 1..Len(t) : t[q] = ":"}
            IN IF colons = {} THEN [empty EXCEPT !.ref_key = t]
               ELSE [empty EXCEPT
                       !.ref_key = t,
                       !.ref_author = Strip(SubSeq(t, 1, Min(colons) - 1)),
                       !.ref_work = Strip(SubSeq(t, Min(colons) + 1, Len(t)))]
       ELSE LET author == Strip(ref.author)
                work == Strip(ref.work)
                key == Strip(ref.key)
                synth == IF author = <<>> THEN work
                         ELSE IF work = <<>> THEN author
                         ELSE author \o <<":">> \o work
            IN [ref_key |-> IF key = <<>> /\ (author # <<>> \/ work # <<>>)
                            THEN synth ELSE key,
                ref_author |-> author, ref_work |-> work,
                ref_loc |-> Strip(ref.loc)]

\* a rule-file entry: enabled is "absent", "true" or "false"; pattern is
\* [present, compiles, lit]
Entry(enabled, lit, repl, ref, name) ==
    [enabled |-> enabled,
     pattern |-> [present |-> TRUE, compiles |-> TRUE, lit |-> lit],
     repl |-> repl, ref |-> ref, name |-> name]

\* mutant of EntryEnabled: the enabled flag is not looked at
EntryEnabled_Always(e) == TRUE

\* item.get("enabled", True)
EntryEnabled(e) == e.enabled # "false"

\* mutant of LoadEntries: an enabled entry without a usable pattern is left
\* out and the load goes on
RECURSIVE LoadEntries_SkipBad(_, _)
LoadEntries_SkipBad(entries, acc) ==
    IF entries = <<>> THEN [ok |-> TRUE, rules |-> acc]
    ELSE LET e == Head(entries)
         IN IF ~EntryEnabled(e) \/ ~e.pattern.present \/ ~e.pattern.compiles
            THEN LoadEntries_SkipBad(Tail(entries), acc)
            ELSE LoadEntries_SkipBad(Tail(entries),
                                     Append(acc, [pattern |-> e.pattern.lit, repl |-> e.repl,
                                                  ref |-> e.ref, name |-> e.name]))

\* the loop over one list of entries: the rules of the enabled entries in
\* file order; ok is FALSE when an enabled entry has no pattern or its
\* pattern does not compile
RECURSIVE LoadEntries(_, _)
LoadEntries(entries, acc) ==
    IF entries = <<>> THEN [ok |-> TRUE, rules |-> acc]
    ELSE LET e == Head(entries)
         IN IF ~EntryEnabled(e) THEN LoadEntries(Tail(entries), acc)
            ELSE IF ~e.pattern.present \/ ~e.pattern.compiles
            THEN [ok |-> FALSE, rules |-> <<>>]
            ELSE LoadEntries(Tail(entries),
                             Append(acc, [pattern |-> e.pattern.lit, repl |-> e.repl,
                                          ref |-> e.ref, name |-> e.name]))

\* load_patterns_from_yaml on a file [status, remove_line_patterns,
\* substitute_patterns]
LoadPatternsFromYaml(file) ==
    IF file.status # "ok" THEN [ok |-> FALSE, remove |-> <<>>, substitute |-> <<>>]
    ELSE LET rm == LoadEntries(file.remove_line_patterns, <<>>)
             sb == LoadEntries(file.substitute_patterns, <<>>)
         IN IF rm.ok /\ sb.ok
            THEN [ok |-> TRUE, remove |-> rm.rules, substitute |-> sb.rules]
            ELSE [ok |-> FALSE, remove |-> <<>>, substitute |-> <<>>]

-----------------------------------------------------------------------------
(* load_lexicon_map_tsv and apply_lexicon_map *)

\* s.split(ch)
RECURSIVE SplitOn(_, _)
SplitOn(s, ch) ==
    LET at == {q \in 1..Len(s) : s[q] = ch}
    IN IF at = {} THEN <<s>>
       ELSE <<SubSeq(s, 1, Min(at) - 1)>> \o SplitOn(SubSeq(s, Min(at) + 1, Len(s)), ch)

\* mapping[src] = dst on an insertion-ordered dict, a sequence of [src, dst]
DictSet(m, src, dst) ==
    IF \E n \in 1..Len(m) : m[n].src = src
    THEN [n \in 1..Len(m) |-> IF m[n].src = src THEN [src |-> src, dst |-> dst] ELSE m[n]]
    ELSE Append(m, [src |-> src, dst |-> dst])

DictHas(m, src) == \E n \in 1..Len(m) : m[n].src = src
DictGet(m, src) == m[CHOOSE n \in 1..Len(m) : m[n].src = src].dst

\* the body of the loop of load_lexicon_map_tsv for one line
LexLoadLine(m, line) ==
    LET t == Strip(line)
        parts == SplitOn(t, "\t")
    IN IF t = <<>> \/ t[1] = "#" THEN [status |-> "skip", mapping |-> m]
       ELSE IF Len(parts) < 2 THEN [status |-> "error", mapping |-> m]
       ELSE IF Strip(parts[1]) = <<>> THEN [status |-> "skip", mapping |-> m]
       ELSE [status |-> "set", mapping |-> DictSet(m, Strip(parts[1]), Strip(parts[2]))]

RECURSIVE LexLoadLines(_, _)
LexLoadLines(m, ls) ==
    IF ls = <<>> THEN [ok |-> TRUE, mapping |-> m]
    ELSE LET r == LexLoadLine(m, Head(ls))
         IN IF r.status = "error" THEN [ok |-> FALSE, mapping |-> <<>>]
            ELSE LexLoadLines(r.mapping, Tail(ls))

\* load_lexicon_map_tsv on the text of the file
LoadLexiconMapTsv(file_text) == LexLoadLines(<<>>, SplitLines(file_text))

WordChars == {"x", "y", "z", "W", "Z"}

\* \b at the 0-based position at of s
WordBoundary(s, at) ==
    LET before == at >= 1 /\ s[at] \in WordChars
        after == at < Len(s) /\ s[at + 1] \in WordChars
    IN before # after

\* mutant of SortedKeys: the keys in insertion order
SortedKeys_Unsorted(m) == [n \in 1..Len(m) |-> m[n].src]

\* sorted(mapping.keys(), key=len, reverse=True): longest first, keys of one
\* length in insertion order
SortedKeys(m) ==
    LET keys == [n \in 1..Len(m) |-> m[n].src]
        lens == {Len(keys[n]) : n \in 1..Len(keys)}
        RECURSIVE ByLen(_)
        ByLen(ls) == IF ls = {} THEN <<>>
                     ELSE SelectSeq(keys, LAMBDA key : Len(key) = Max(ls))
                          \o ByLen(ls \ {Max(ls)})
    IN ByLen(lens)

\* mutant of LexMatchAt: the alternation without the \b on either side
LexMatchAt_NoBoundary(s, keys, at) ==
    LET ok == {n \in 1..Len(keys) : MatchesAt(keys[n], s, at + 1)}
    IN IF ok = {} THEN 0 ELSE Min(ok)

\* \b(k1|k2|...)\b tried at the 0-based position at: the index of the first
\* alternative that matches with a word boundary on both sides, 0 if none
LexMatchAt(s, keys, at) ==
    LET ok == {n \in 1..Len(keys) :
                  /\ WordBoundary(s, at)
                  /\ MatchesAt(keys[n], s, at + 1)
                  /\ WordBoundary(s, at + Len(keys[n]))}
    IN IF ok = {} THEN 0 ELSE Min(ok)

\* one step of pat.sub(repl, text) at the 0-based position st.pos: a match is
\* replaced by its mapped value and the scan resumes after it, else the
\* character is copied
LexScanStep(st, s, m) ==
    LET keys == SortedKeys(m)
        n == LexMatchAt(s, keys, st.pos)
    IN IF n = 0
       THEN [pos |-> st.pos + 1, out |-> Append(st.out, s[st.pos + 1]), hits |-> st.hits]
       ELSE [pos |-> st.pos + Len(keys[n]),
             out |-> st.out \o (IF DictHas(m, keys[n]) THEN DictGet(m, keys[n]) ELSE keys[n]),
             hits |-> Append(st.hits, [at |-> st.pos, key |-> keys[n]])]

RECURSIVE LexScan(_, _, _)
LexScan(st, s, m) == IF st.pos >= Len(s) THEN st ELSE LexScan(LexScanStep(st, s, m), s, m)

\* apply_lexicon_map
ApplyLexiconMap(s, m) ==
    IF s = <<>> \/ m = <<>> THEN s ELSE LexScan(LexScanInit, s, m).out

-----------------------------------------------------------------------------
(* The cleaning engine: clean_text, clean_corpus_corporum_text and          *)
(* clean_scholastic_text.  The two cleaners share their line loop; kind     *)
(* selects what differs (header skip, tab replacement, default rule file).  *)

RefHeader ==
    [kind |-> "header",
     cols |-> <<"doc_id", "kind", "rule_name", "action", "line_no", "match_count",
                "ref_key", "ref_author", "ref_work", "ref_loc", "text_snippet">>]

\* mutant of MkEvent: the snippet is not cut to the bound
MkEvent_WholeSnippet(ctx, rule, action, line_no, match_count, snippet) ==
    LET flat == FlattenRef(rule.ref)
    IN [doc_id |-> ctx.doc_id, kind |-> ctx.kind, rule_name |-> rule.name,
        action |-> action, line_no |-> line_no, match_count |-> match_count,
        ref_key |-> flat.ref_key, ref_author |-> flat.ref_author,
        ref_work |-> flat.ref_work, ref_loc |-> flat.ref_loc,
        text_snippet |-> snippet]

\* RefEvent(...); ctx = [kind, doc_id, sink, snippet_chars]
MkEvent(ctx, rule, action, line_no, match_count, snippet) ==
    LET flat == FlattenRef(rule.ref)
    IN [doc_id |-> ctx.doc_id, kind |-> ctx.kind, rule_name |-> rule.name,
        action |-> action, line_no |-> line_no, match_count |-> match_count,
        ref_key |-> flat.ref_key, ref_author |-> flat.ref_author,
        ref_work |-> flat.ref_work, ref_loc |-> flat.ref_loc,
        text_snippet |-> Truncate(snippet, ctx.snippet_chars)]

\* mutant of FirstMatch: the last matching remove rule wins
FirstMatch_Last(rules, stripped) ==
    LET hit == {n \in 1..Len(rules) : IsPrefix(rules[n].pattern, stripped)}
    IN IF hit = {} THEN 0 ELSE Max(hit)

\* the loop over remove_line_rules: the index of the first rule whose pattern
\* matches the stripped line (break), 0 when none does
FirstMatch(rules, stripped) ==
    LET hit == {n \in 1..Len(rules) : IsPrefix(rules[n].pattern, stripped)}
    IN IF hit = {} THEN 0 ELSE Min(hit)

\* mutant of Substitute: the matches are counted after the substitution
RECURSIVE Substitute_CountAfter(_, _, _, _, _)
Substitute_CountAfter(st, rules, stripped, rel_i, ctx) ==
    IF rules = <<>> THEN st
    ELSE LET rule == Head(rules)
             m == FindAllCount(rule.pattern, st.line, 1)
             new == ReSub(rule.pattern, rule.repl, st.line, 1)
         IN IF m = 0 THEN Substitute_CountAfter(st, Tail(rules), stripped, rel_i, ctx)
            ELSE Substitute_CountAfter(
                    [line |-> new,
                     events |-> IF ctx.sink
                                THEN Append(st.events,
                                            MkEvent(ctx, rule, "substitute", rel_i,
                                                    FindAllCount(rule.pattern, new, 1),
                                                    stripped))
                                ELSE st.events],
                    Tail(rules), stripped, rel_i, ctx)

\* the loop over substitute_rules on one line; st = [line, events]
RECURSIVE Substitute(_, _, _, _, _)
Substitute(st, rules, stripped, rel_i, ctx) ==
    IF rules = <<>> THEN st
    ELSE LET rule == Head(rules)
             m == FindAllCount(rule.pattern, st.line, 1)
         IN IF m = 0 THEN Substitute(st, Tail(rules), stripped, rel_i, ctx)
            ELSE Substitute(
                    [line |-> ReSub(rule.pattern, rule.repl, st.line, 1),
                     events |-> IF ctx.sink
                                THEN Append(st.events,
                                            MkEvent(ctx, rule, "substitute", rel_i, m, stripped))
                                ELSE st.events],
                    Tail(rules), stripped, rel_i, ctx)

\* the body of the loop over the body lines; acc = [cleaned_lines, events]
ProcessLine(acc, raw_line, rel_i, patterns, ctx) ==
    LET line == IF ctx.kind = "corpus_corporum" THEN RStripNewline(raw_line) ELSE raw_line
        stripped == Strip(line)
        d == FirstMatch(patterns.remove, stripped)
        sub == Substitute([line |-> line, events |-> acc.events], patterns.substitute,
                          stripped, rel_i, ctx)
    IN IF d # 0
       THEN [cleaned_lines |-> acc.cleaned_lines,
             events |-> IF ctx.sink
                        THEN Append(acc.events,
                                    MkEvent(ctx, patterns.remove[d], "drop_line", rel_i, 1, line))
                        ELSE acc.events]
       ELSE [cleaned_lines |->
                Append(acc.cleaned_lines,
                       IF ctx.kind = "corpus_corporum" THEN TabsToSpaces(sub.line)
                       ELSE sub.line),
             events |-> sub.events]

\* mutant of StartIndex: the last terminator line ends the metadata block
StartIndex_LastTerminator(kind, lines) ==
    LET hit == {n \in 1..Len(lines) : HeaderHashMatch(lines[n])}
    IN IF kind # "corpus_corporum" \/ hit = {} THEN 0 ELSE Max(hit)

\* start_idx: corpus_corporum skips up to and including the first line that
\* HEADER_HASH_RE matches; scholastic_text skips nothing
StartIndex(kind, lines) ==
    LET hit == {n \in 1..Len(lines) : HeaderHashMatch(lines[n])}
    IN IF kind # "corpus_corporum" \/ hit = {} THEN 0 ELSE Min(hit)

\* the rule files of the model
Chars_AM == <<"A", ":", "M">>

RulesCC ==
    [status |-> "ok",
     remove_line_patterns |->
        <<Entry("absent", <<"x", "y">>, <<>>, StrRef(Chars_AM), "cc_rm_xy"),
          Entry("true", <<"x">>, <<>>, NoRef, "cc_rm_x")>>,
     substitute_patterns |->
        <<Entry("absent", <<"y">>, <<"x">>, NoRef, "cc_sub_y"),
          Entry("true", <<"x", "x">>, <<"y">>, StrRef(Chars_AM), "cc_sub_xx")>>]

RulesST ==
    [status |-> "ok",
     remove_line_patterns |->
        <<Entry("absent", <<"x", "y">>, <<>>, NoRef, "st_rm_xy"),
          Entry("absent", <<"x">>, <<>>, NoRef, "st_rm_x")>>,
     substitute_patterns |->
        <<Entry("absent", <<"y">>, <<"x">>, NoRef, "st_sub_y"),
          Entry("absent", <<"x", "x">>, <<"y">>, NoRef, "st_sub_xx")>>]

RulesCustom ==
    [status |-> "ok",
     remove_line_patterns |->
        <<Entry("false", <<"y">>, <<>>, NoRef, "cu_rm_y_off"),
          Entry("absent", <<"x">>, <<>>, NoRef, "cu_rm_x")>>,
     substitute_patterns |->
        <<Entry("absent", <<"y">>, <<>>, NoRef, "cu_sub_y")>>]

RulesMissing ==
    [status |-> "missing", remove_line_patterns |-> <<>>, substitute_patterns |-> <<>>]

\* mutant of ResolveRules: without a rules path both kinds load the
\* corpus_corporum rule file
ResolveRules_AlwaysCC(kind, rules_arg) ==
    IF rules_arg.path \notin {"none", "omitted"} THEN rules_arg
    ELSE [path |-> "CORPUS_CORPORUM_YAML_PATH", file |-> RulesCC]

\* yaml_path left out takes the parameter's default, yaml_path None falls back
\* to the same file: the kind's own
ResolveRules(kind, rules_arg) ==
    IF rules_arg.path \notin {"none", "omitted"} THEN rules_arg
    ELSE IF kind = "corpus_corporum"
    THEN [path |-> "CORPUS_CORPORUM_YAML_PATH", file |-> RulesCC]
    ELSE [path |-> "SCHOLASTIC_TEXT_YAML_PATH", file |-> RulesST]

\* the exception a failing load_patterns_from_yaml raises
RuleLoadError(file) ==
    IF file.status = "missing" THEN "FileNotFoundError"
    ELSE IF file.status = "malformed" THEN "YAMLError"
    ELSE "KeyError or re.error"

\* mutant of KindStrip: a kind that is empty or None falls back to
\* corpus_corporum
KindStrip_Default(kind) ==
    IF kind \in {" corpus_corporum ", "None", ""} THEN "corpus_corporum" ELSE kind

\* (kind or "").strip() on the kind arguments of the model
KindStrip(kind) ==
    IF kind = " corpus_corporum " THEN "corpus_corporum"
    ELSE IF kind = "None" THEN "" ELSE kind

\* mutant of JoinAndCollapse: the runs of spaces are left as they are
JoinAndCollapse_SpacesKept(cleaned_lines) ==
    CollapseRuns(JoinLines(cleaned_lines), "\n", 3, 2, 1)

\* cleaned_text after the line loop: "\n".join(cleaned_lines), then
\* re.sub(r"\n{3,}", "\n\n", .) and re.sub(r" {2,}", " ", .)
JoinAndCollapse(cleaned_lines) ==
    CollapseRuns(CollapseRuns(JoinLines(cleaned_lines), "\n", 3, 2, 1), " ", 2, 1, 1)

\* mutant of PostProcess: the result is not stripped before the newline is
\* appended
PostProcess_NoStrip(t) ==
    CollapseRuns(CollapseRuns(t, "\n", 3, 2, 1), " ", 2, 1, 1) \o <<"\n">>

\* the whitespace post-processing of a joined text, without a lexicon map: the
\* two re.sub calls, then cleaned_text.strip() + "\n"
PostProcess(t) ==
    Strip(CollapseRuns(CollapseRuns(t, "\n", 3, 2, 1), " ", 2, 1, 1)) \o <<"\n">>

\* mutant of WriteRefEvents: the header row is written on every call
WriteRefEvents_AlwaysHeader(log, events) ==
    [exists |-> TRUE, rows |-> log.rows \o <<RefHeader>> \o events]

\* _write_ref_events_tsv: append, the header first when the file is new
WriteRefEvents(log, events) ==
    [exists |-> TRUE,
     rows |-> (IF ~log.exists THEN <<RefHeader>> ELSE log.rows) \o events]

-----------------------------------------------------------------------------
(* apply_lexicon_map and load_lexicon_map_tsv as state machines *)

LexAlphabet == {"x", "y", " "}

Chars_x == <<"x">>
Chars_y == <<"y">>
Chars_xy == <<"x", "y">>
Chars_x_y == <<"x", " ", "y">>
Chars_W == <<"W">>
Chars_Z == <<"Z">>

\* the mappings of the model: a key that is a prefix of a two-word key and
\* was inserted before it, two one-word keys, and the empty mapping
LexMaps ==
    {<<[src |-> Chars_x, dst |-> Chars_Z], [src |-> Chars_x_y, dst |-> Chars_W]>>,
     <<[src |-> Chars_xy, dst |-> Chars_Z], [src |-> Chars_y, dst |-> <<>>]>>,
     <<>>}

InitLexApply ==
    /\ comp = "lex_apply"
    /\ pc = "start"
    /\ lex_text \in SeqsUpTo(LexAlphabet, MaxLexLen)
    /\ lex_map \in LexMaps
    /\ lex_scan = LexScanInit
    /\ lex_lines = <<>>
    /\ lex_idx = 0
    /\ ChunkerIdle
    /\ StreamIdle
    /\ CleanIdle
    /\ RestIdle

\* entry of apply_lexicon_map: empty text or mapping returns the text
LexApplyStart ==
    /\ comp = "lex_apply" /\ pc = "start"
    /\ IF lex_text = <<>> \/ lex_map = <<>>
       THEN /\ pc' = "done"
            /\ lex_scan' = [pos |-> Len(lex_text), out |-> lex_text, hits |-> <<>>]
       ELSE /\ pc' = "scan"
            /\ UNCHANGED lex_scan
    /\ UNCHANGED <<restVars, comp, chunkerVars, streamVars, cleanVars, lex_text, lex_map,
                   lex_lines, lex_idx>>

\* one step of pat.sub over the text
LexApplyScan ==
    /\ comp = "lex_apply" /\ pc = "scan"
    /\ lex_scan.pos < Len(lex_text)
    /\ lex_scan' = LexScanStep(lex_scan, lex_text, lex_map)
    /\ pc' = IF lex_scan'.pos >= Len(lex_text) THEN "done" ELSE "scan"
    /\ UNCHANGED <<restVars, comp, chunkerVars, streamVars, cleanVars, lex_text, lex_map,
                   lex_lines, lex_idx>>

NextLexApply == LexApplyStart \/ LexApplyScan

SpecLexApply == InitLexApply /\ [][NextLexApply]_vars

\* the text of a file holding the given lines
TextOfLines(ls) == Concat([n \in 1..Len(ls) |-> ls[n] \o <<"\n">>])

\* the rows of the lexicon files of the model: two fields, one field, three
\* fields, blank, comment, a second row for the same source word
LexFileLines ==
    {<<"x", "\t", "y">>, <<"x">>, <<"x", "\t", "y", "\t", "z">>, <<" ">>,
     <<"#", "x">>, <<" ", "x", "\t", "z">>}

InitLexLoad ==
    /\ comp = "lex_load"
    /\ pc = "start"
    /\ lex_text \in {TextOfLines(ls) : ls \in SeqsUpTo(LexFileLines, MaxLexLines)}
    /\ lex_map = <<>>
    /\ lex_scan = LexScanInit
    /\ lex_lines = <<>>
    /\ lex_idx = 0
    /\ ChunkerIdle
    /\ StreamIdle
    /\ CleanIdle
    /\ RestIdle

\* p.read_text(encoding="utf-8").splitlines()
LexLoadRead ==
    /\ comp = "lex_load" /\ pc = "start"
    /\ lex_lines' = SplitLines(lex_text)
    /\ pc' = "loading"
    /\ UNCHANGED <<restVars, comp, chunkerVars, streamVars, cleanVars, lex_text, lex_map,
                   lex_scan, lex_idx>>

\* one iteration of the loop over the lines
LexLoadStep ==
    /\ comp = "lex_load" /\ pc = "loading"
    /\ lex_idx < Len(lex_lines)
    /\ LET r == LexLoadLine(lex_map, lex_lines[lex_idx + 1])
       IN /\ lex_map' = r.mapping
          /\ lex_idx' = lex_idx + 1
          /\ pc' = IF r.status = "error" THEN "error" ELSE "loading"
    /\ UNCHANGED <<restVars, comp, chunkerVars, streamVars, cleanVars, lex_text, lex_scan,
                   lex_lines>>

\* return mapping
LexLoadReturn ==
    /\ comp = "lex_load" /\ pc = "loading"
    /\ lex_idx = Len(lex_lines)
    /\ pc' = "ok"
    /\ UNCHANGED <<restVars, comp, chunkerVars, streamVars, cleanVars, lexVars>>

NextLexLoad == LexLoadRead \/ LexLoadStep \/ LexLoadReturn

SpecLexLoad == InitLexLoad /\ [][NextLexLoad]_vars

-----------------------------------------------------------------------------
(* load_patterns_from_yaml as a state machine *)

\* what a rule file may say about an entry: its enabled flag and its pattern
\* field (a pattern that compiles, no pattern field, a pattern that re.compile
\* rejects)
EntryShapes == {"absent", "true", "false"} \X {"good", "missing", "bad"}

\* the n-th item of a list of the file, named after its list and position
ShapedEntry(list, n, shape) ==
    [enabled |-> shape[1],
     pattern |-> [present |-> shape[2] # "missing", compiles |-> shape[2] = "good",
                  lit |-> <<"x">>],
     repl |-> <<>>, ref |-> NoRef, name |-> <<list, n>>]

ShapedList(list, max) ==
    {[n \in 1..Len(shapes) |-> ShapedEntry(list, n, shapes[n])] :
        shapes \in SeqsUpTo(EntryShapes, max)}

\* the rule files of load_patterns_from_yaml: a missing file, a file that is
\* not well-formed YAML, and the well-formed files
RuleFiles ==
    {[status |-> st, remove_line_patterns |-> <<>>, substitute_patterns |-> <<>>] :
        st \in {"missing", "malformed"}}
    \cup {[status |-> "ok", remove_line_patterns |-> rm, substitute_patterns |-> sb] :
            rm \in ShapedList("remove", MaxRuleEntries),
            sb \in ShapedList("substitute", MaxSubEntries)}

InitRules ==
    /\ comp = "rules"
    /\ pc = "start"
    /\ rule_file \in RuleFiles
    /\ rule_idx = 0
    /\ remove_line_rules = <<>>
    /\ substitute_rules = <<>>
    /\ ChunkerIdle
    /\ StreamIdle
    /\ LexIdle
    /\ CleanIdle
    /\ MainIdle
    /\ MoreIdle

\* an exception leaves load_patterns_from_yaml: its lists are gone
RulesRaise ==
    /\ pc' = "error"
    /\ remove_line_rules' = <<>>
    /\ substitute_rules' = <<>>

\* yaml.safe_load(yaml_path.read_text(encoding="utf-8"))
RulesRead ==
    /\ comp = "rules" /\ pc = "start"
    /\ IF rule_file.status # "ok"
       THEN RulesRaise
       ELSE pc' = "remove" /\ UNCHANGED <<remove_line_rules, substitute_rules>>
    /\ UNCHANGED <<moreVars, mainVars, comp, chunkerVars, streamVars, lexVars, cleanVars, rule_file, rule_idx>>

\* one iteration of the loop over data.get("remove_line_patterns", [])
RulesRemoveItem ==
    /\ comp = "rules" /\ pc = "remove"
    /\ rule_idx < Len(rule_file.remove_line_patterns)
    /\ LET r == LoadEntries(<<rule_file.remove_line_patterns[rule_idx + 1]>>,
                            remove_line_rules)
       IN IF r.ok
          THEN /\ remove_line_rules' = r.rules
               /\ pc' = "remove"
               /\ UNCHANGED substitute_rules
          ELSE RulesRaise
    /\ rule_idx' = rule_idx + 1
    /\ UNCHANGED <<moreVars, mainVars, comp, chunkerVars, streamVars, lexVars, cleanVars, rule_file>>

\* the first loop is over; the second starts
RulesRemoveDone ==
    /\ comp = "rules" /\ pc = "remove"
    /\ rule_idx = Len(rule_file.remove_line_patterns)
    /\ pc' = "substitute"
    /\ rule_idx' = 0
    /\ UNCHANGED <<moreVars, mainVars, comp, chunkerVars, streamVars, lexVars, cleanVars, rule_file,
                   remove_line_rules, substitute_rules>>

\* one iteration of the loop over data.get("substitute_patterns", [])
RulesSubstituteItem ==
    /\ comp = "rules" /\ pc = "substitute"
    /\ rule_idx < Len(rule_file.substitute_patterns)
    /\ LET r == LoadEntries(<<rule_file.substitute_patterns[rule_idx + 1]>>,
                            substitute_rules)
       IN IF r.ok
          THEN /\ substitute_rules' = r.rules
               /\ pc' = "substitute"
               /\ UNCHANGED remove_line_rules
          ELSE RulesRaise
    /\ rule_idx' = rule_idx + 1
    /\ UNCHANGED <<moreVars, mainVars, comp, chunkerVars, streamVars, lexVars, cleanVars, rule_file>>

\* return {"remove_line_patterns": ..., "substitute_patterns": ...}
RulesReturn ==
    /\ comp = "rules" /\ pc = "substitute"
    /\ rule_idx = Len(rule_file.substitute_patterns)
    /\ pc' = "ok"
    /\ UNCHANGED <<moreVars, mainVars, comp, chunkerVars, streamVars, lexVars, cleanVars, ruleVars>>

NextRules ==
    RulesRead \/ RulesRemoveItem \/ RulesRemoveDone \/ RulesSubstituteItem \/ RulesReturn

SpecRules == InitRules /\ [][NextRules]_vars

-----------------------------------------------------------------------------
(* clean_text calls, one after another, sharing one provenance log *)

Line_term == <<"#", "#", "#", "#", "#", " ">>
Line_four == <<"#", "#", "#", "#">>
Line_xy == <<"x", "y">>
Line_sx == <<" ", "x">>
Line_yx == <<"y", "x">>
Line_yty == <<"y", "\t", "y">>
Line_blank == <<>>

\* the lines of the texts that exercise the post-processing: runs of blank
\* lines, runs of spaces, a tab, a line the rules drop
Line_y == <<"y">>
Line_x == <<"x">>
Line_y__y == <<"y", " ", " ", "y">>
Line_tab == <<"\t">>

PostLinesAll == {Line_blank, Line_y, Line_x, Line_y__y, Line_tab}

CleanLinesAll == {Line_term, Line_four, Line_xy, Line_sx, Line_yx, Line_yty, Line_blank}

LexFileGood == TextOfLines(<<<<"#", "x">>, <<"x", "\t", "z">>>>)
LexFileBad == TextOfLines(<<<<"x">>>>)

NoRules == [path |-> "none"]
OmittedRules == [path |-> "omitted"]
CustomRules(file) == [path |-> "custom.yml", file |-> file]
NoLex == [given |-> FALSE]
LexArg(file) == [given |-> TRUE, file |-> file]

\* the lines of the texts of the direct calls: longer and shorter than the
\* small snippet bound
Line_sxy == <<" ", "x", "y">>
Line_syxys == <<" ", "y", "x", "y", " ">>

DirectLinesAll == {Line_sxy, Line_syxys, Line_yx, Line_yty}

PoolTexts(p) ==
    IF p = "direct"
    THEN {TextOfLines(ls) : ls \in SeqsUpTo(DirectLinesAll, MaxLines)}
    ELSE IF p = "clean"
    THEN {TextOfLines(ls) : ls \in SeqsUpTo(CleanLinesAll, MaxLines)}
    ELSE IF p = "post"
    THEN {TextOfLines(ls) : ls \in SeqsUpTo(PostLinesAll, MaxPostLines)}
    ELSE IF p = "kinds"
    THEN {TextOfLines(<<Line_xy>>), TextOfLines(<<Line_term, Line_sx, Line_yty>>)}
    ELSE {TextOfLines(<<>>), TextOfLines(<<Line_xy>>), TextOfLines(<<Line_yx>>),
          TextOfLines(<<Line_term, Line_sx, Line_yty>>)}

PoolKinds(p) ==
    IF p \in {"clean", "post", "direct"} THEN {"corpus_corporum", "scholastic_text"}
    ELSE IF p = "kinds"
    THEN {"corpus_corporum", " corpus_corporum ", "scholastic_text", "other", "", "None"}
    ELSE {"corpus_corporum", "scholastic_text", "other"}

PoolRules(p) ==
    IF p \in {"clean", "kinds", "post", "direct"} THEN {NoRules, CustomRules(RulesCustom)}
    ELSE {NoRules, CustomRules(RulesMissing)}

PoolLex(p) ==
    IF p \in {"clean", "kinds"} THEN {NoLex, LexArg(LexFileGood)}
    ELSE IF p \in {"post", "direct"} THEN {NoLex}
    ELSE {NoLex, LexArg(LexFileGood), LexArg(LexFileBad)}

CallBudget(p) == IF p \in {"clean", "kinds", "post", "direct"} THEN 1 ELSE MaxCalls

PoolSinks(p) == IF p = "post" THEN {FALSE} ELSE BOOLEAN

\* the function a caller enters: clean_text, or one of the per-kind cleaners
Cleaners == {"clean_corpus_corporum_text", "clean_scholastic_text"}

\* the argument lists a caller may pass to clean_text, which leaves
\* snippet_chars at the cleaners' default
TextArgs(p) ==
    {[entry |-> "clean_text", text |-> txt, kind |-> kind, sink |-> sink,
      rules_arg |-> rules_arg, lex_arg |-> lex_arg, snippet_chars |-> SnippetChars] :
        txt \in PoolTexts(p), kind \in PoolKinds(p), sink \in PoolSinks(p),
        rules_arg \in PoolRules(p), lex_arg \in PoolLex(p)}

\* the argument lists of a direct call of a per-kind cleaner: no kind, yaml_path
\* may be left out, snippet_chars may be given
DirectArgs(p) ==
    {[entry |-> entry, text |-> txt, kind |-> "", sink |-> sink,
      rules_arg |-> rules_arg, lex_arg |-> lex_arg, snippet_chars |-> snippet_chars] :
        entry \in Cleaners, txt \in PoolTexts(p), sink \in PoolSinks(p),
        rules_arg \in PoolRules(p) \cup {OmittedRules}, lex_arg \in PoolLex(p),
        snippet_chars \in {SmallSnippet, SnippetChars}}

PoolArgs(p) == IF p = "direct" THEN TextArgs(p) \cup DirectArgs(p) ELSE TextArgs(p)

InitCleanWith(p, logs) ==
    /\ comp = "clean"
    /\ pc = "idle"
    /\ pool = p
    /\ ref_log \in logs
    /\ log_preexisted = ref_log.exists
    /\ calls = 0
    /\ args \in PoolArgs(p)
    /\ last = NoCall
    /\ ChunkerIdle
    /\ StreamIdle
    /\ LexIdle
    /\ RestIdle

InitClean == InitCleanWith("clean", {[exists |-> FALSE, rows |-> <<>>]})

InitRefLog ==
    InitCleanWith("reflog", {[exists |-> FALSE, rows |-> <<>>],
                             [exists |-> TRUE, rows |-> <<>>]})

\* the local variables of a call of clean_text that has entered a cleaner
Frame(kd, rules, patterns, body) ==
    [entry |-> args.entry, text |-> args.text, kind |-> args.kind, sink |-> args.sink,
     doc_id |-> calls + 1,
     rules_arg |-> args.rules_arg.path, lex_given |-> args.lex_arg.given,
     kd |-> kd, rules_path |-> rules.path, snippet_chars |-> args.snippet_chars,
     patterns |-> [remove |-> patterns.remove, substitute |-> patterns.substitute],
     body |-> body, rel_i |-> 1, cleaned_lines |-> <<>>, events |-> <<>>,
     outcome |-> "running", error |-> "", out |-> <<>>]

\* the call is over (return or raise): the caller names its documents 1, 2,
\* ... and chooses the arguments of its next call
Return ==
    /\ pc' = "idle"
    /\ calls' = calls + 1
    /\ IF calls + 1 < CallBudget(pool) THEN args' \in PoolArgs(pool) ELSE args' = NoCall

\* clean_text(text, kind=..., ref_tsv=..., doc_id=..., rules_path=...,
\* lexicon_map_path=...) up to the loop over the body lines: the dispatch on
\* kind, load_patterns_from_yaml, splitlines and the header skip
CleanEnter ==
    /\ comp = "clean" /\ pc = "idle"
    /\ calls < CallBudget(pool)
    /\ LET kd == IF args.entry = "clean_text" THEN KindStrip(args.kind)
                 ELSE IF args.entry = "clean_corpus_corporum_text" THEN "corpus_corporum"
                 ELSE "scholastic_text"
           rules == ResolveRules(kd, args.rules_arg)
           patterns == LoadPatternsFromYaml(rules.file)
           lines == SplitLines(args.text)
           body == SubSeq(lines, StartIndex(kd, lines) + 1, Len(lines))
       IN IF kd \notin {"corpus_corporum", "scholastic_text"}
          THEN /\ last' = [Frame(kd, [path |-> "none"],
                                 [remove |-> <<>>, substitute |-> <<>>], <<>>)
                             EXCEPT !.outcome = "error", !.error = "ValueError"]
               /\ Return
          ELSE IF ~patterns.ok
          THEN /\ last' = [Frame(kd, rules, patterns, <<>>)
                             EXCEPT !.outcome = "error", !.error = RuleLoadError(rules.file)]
               /\ Return
          ELSE /\ last' = Frame(kd, rules, patterns, body)
               /\ pc' = "lines"
               /\ UNCHANGED <<calls, args>>
    /\ UNCHANGED <<restVars, comp, chunkerVars, streamVars, lexVars, pool, ref_log, log_preexisted>>

\* one iteration of the loop over lines[start_idx:]
CleanLine ==
    /\ comp = "clean" /\ pc = "lines"
    /\ last.rel_i <= Len(last.body)
    /\ LET ctx == [kind |-> last.kd, doc_id |-> last.doc_id, sink |-> last.sink,
                   snippet_chars |-> last.snippet_chars]
           acc == ProcessLine([cleaned_lines |-> last.cleaned_lines, events |-> last.events],
                              last.body[last.rel_i], last.rel_i, last.patterns, ctx)
       IN last' = [last EXCEPT !.cleaned_lines = acc.cleaned_lines,
                               !.events = acc.events,
                               !.rel_i = last.rel_i + 1]
    /\ UNCHANGED <<restVars, comp, pc, chunkerVars, streamVars, lexVars, pool, ref_log,
                   log_preexisted, calls, args>>

\* mutant of CleanFinish: the events are written before the lexicon map is
\* loaded
CleanFinish_WriteBeforeLex ==
    /\ comp = "clean" /\ pc = "lines"
    /\ last.rel_i > Len(last.body)
    /\ LET collapsed == JoinAndCollapse(last.cleaned_lines)
           lex == IF args.lex_arg.given THEN LoadLexiconMapTsv(args.lex_arg.file)
                  ELSE [ok |-> TRUE, mapping |-> <<>>]
       IN /\ ref_log' = IF last.sink THEN WriteRefEvents(ref_log, last.events)
                        ELSE ref_log
          /\ IF ~lex.ok
             THEN last' = [last EXCEPT !.outcome = "error", !.error = "ValueError"]
             ELSE last' = [last EXCEPT
                             !.outcome = "ok",
                             !.out = Strip(IF args.lex_arg.given
                                           THEN ApplyLexiconMap(collapsed, lex.mapping)
                                           ELSE collapsed) \o <<"\n">>]
    /\ Return
    /\ UNCHANGED <<restVars, comp, chunkerVars, streamVars, lexVars, pool, log_preexisted>>

\* after the loop: join and collapse, the lexicon map when one is given,
\* _write_ref_events_tsv when a sink is given, and the return value
CleanFinish ==
    /\ comp = "clean" /\ pc = "lines"
    /\ last.rel_i > Len(last.body)
    /\ LET collapsed == JoinAndCollapse(last.cleaned_lines)
           lex == IF args.lex_arg.given THEN LoadLexiconMapTsv(args.lex_arg.file)
                  ELSE [ok |-> TRUE, mapping |-> <<>>]
       IN IF ~lex.ok
          THEN /\ last' = [last EXCEPT !.outcome = "error", !.error = "ValueError"]
               /\ UNCHANGED ref_log
          ELSE /\ last' = [last EXCEPT
                             !.outcome = "ok",
                             !.out = Strip(IF args.lex_arg.given
                                           THEN ApplyLexiconMap(collapsed, lex.mapping)
                                           ELSE collapsed) \o <<"\n">>]
               /\ ref_log' = IF last.sink THEN WriteRefEvents(ref_log, last.events)
                             ELSE ref_log
    /\ Return
    /\ UNCHANGED <<restVars, comp, chunkerVars, streamVars, lexVars, pool, log_preexisted>>

NextClean == CleanEnter \/ CleanLine \/ CleanFinish

SpecClean == InitClean /\ [][NextClean]_vars
SpecRefLog == InitRefLog /\ [][NextClean]_vars

\* one call of clean_text with any kind argument
InitKinds ==
    InitCleanWith("kinds", {[exists |-> FALSE, rows |-> <<>>],
                            [exists |-> TRUE, rows |-> <<>>]})

SpecKinds == InitKinds /\ [][NextClean]_vars

\* one call of clean_text without a lexicon map on a text of blank lines,
\* runs of spaces and lines the rules drop
InitPost == InitCleanWith("post", {[exists |-> FALSE, rows |-> <<>>]})

SpecPost == InitPost /\ [][NextClean]_vars

\* one call, of clean_text or of a per-kind cleaner directly, the latter with
\* yaml_path given, None or left out and with snippet_chars given or not
InitDirect ==
    InitCleanWith("direct", {[exists |-> FALSE, rows |-> <<>>],
                             [exists |-> TRUE, rows |-> <<>>]})

SpecDirect == InitDirect /\ [][NextClean]_vars

-----------------------------------------------------------------------------
(* build_stanza_pipeline: stanza.Pipeline and stanza.download are the       *)
(* library's; each call of them succeeds or raises as the environment       *)
(* pipe_env has it                                                          *)

\* package after the two overrides: stanza_package wins over package, and
\* Latin without a package takes perseus
ResolvePackage(lang, package, stanza_package) ==
    LET p == IF stanza_package # "None" THEN stanza_package ELSE package
    IN IF lang = "la" /\ p = "None" THEN "perseus" ELSE p

\* the entries of pipe_log
PipelineCall(package) == [fn |-> "Pipeline", package |-> package]
DownloadCall(package) == [fn |-> "download", package |-> package]

PipeArgs ==
    [lang : {"la", "en"}, package : {"None", "ittb"},
     stanza_package : {"None", "dict"}, auto_download : BOOLEAN]

\* the outcomes of the first construction, of download with a package, of
\* download without one, and of the second construction
PipeEnvs ==
    [first : {"ok", "raise"}, download : {"ok", "TypeError", "raise"},
     fallback : {"ok", "raise"}, second : {"ok", "raise"}]

InitPipe ==
    /\ comp = "pipe"
    /\ pc = "start"
    /\ pipe_args \in PipeArgs
    /\ pipe_env \in PipeEnvs
    /\ pipe_package = "none"
    /\ pipe_log = <<>>
    /\ pipe_result = "running"
    /\ ChunkerIdle
    /\ StreamIdle
    /\ LexIdle
    /\ CleanIdle
    /\ RulesIdle
    /\ MainIdle
    /\ PostIdle

\* up to and including the first stanza.Pipeline(**pipe_kwargs)
PipeConstruct ==
    /\ comp = "pipe" /\ pc = "start"
    /\ LET package == ResolvePackage(pipe_args.lang, pipe_args.package,
                                     pipe_args.stanza_package)
       IN /\ pipe_package' = package
          /\ pipe_log' = Append(pipe_log, PipelineCall(package))
    /\ IF pipe_env.first = "ok"
       THEN pc' = "done" /\ pipe_result' = "returned"
       ELSE pc' = "except" /\ UNCHANGED pipe_result
    /\ UNCHANGED <<comp, chunkerVars, streamVars, lexVars, cleanVars, ruleVars, mainVars,
                   postVars, pipe_args, pipe_env>>

\* mutant of PipeExcept: the download is made whatever auto_download says
PipeExcept_AlwaysDownload ==
    /\ comp = "pipe" /\ pc = "except"
    /\ pipe_log' = Append(pipe_log, DownloadCall(pipe_package))
    /\ IF pipe_env.download = "ok"
       THEN pc' = "retry" /\ UNCHANGED pipe_result
       ELSE IF pipe_env.download = "TypeError"
       THEN pc' = "fallback" /\ UNCHANGED pipe_result
       ELSE pc' = "done" /\ pipe_result' = "download raised"
    /\ UNCHANGED <<comp, chunkerVars, streamVars, lexVars, cleanVars, ruleVars, mainVars,
                   postVars, pipe_args, pipe_env, pipe_package>>

\* the except clause: re-raise without auto_download, else
\* stanza.download(lang, package=package)
PipeExcept ==
    /\ comp = "pipe" /\ pc = "except"
    /\ IF ~pipe_args.auto_download
       THEN /\ pc' = "done"
            /\ pipe_result' = "Pipeline raised"
            /\ UNCHANGED pipe_log
       ELSE /\ pipe_log' = Append(pipe_log, DownloadCall(pipe_package))
            /\ IF pipe_env.download = "ok"
               THEN pc' = "retry" /\ UNCHANGED pipe_result
               ELSE IF pipe_env.download = "TypeError"
               THEN pc' = "fallback" /\ UNCHANGED pipe_result
               ELSE pc' = "done" /\ pipe_result' = "download raised"
    /\ UNCHANGED <<comp, chunkerVars, streamVars, lexVars, cleanVars, ruleVars, mainVars,
                   postVars, pipe_args, pipe_env, pipe_package>>

\* except TypeError: stanza.download(lang)
PipeFallback ==
    /\ comp = "pipe" /\ pc = "fallback"
    /\ pipe_log' = Append(pipe_log, DownloadCall("omitted"))
    /\ IF pipe_env.fallback = "ok"
       THEN pc' = "retry" /\ UNCHANGED pipe_result
       ELSE pc' = "done" /\ pipe_result' = "download raised"
    /\ UNCHANGED <<comp, chunkerVars, streamVars, lexVars, cleanVars, ruleVars, mainVars,
                   postVars, pipe_args, pipe_env, pipe_package>>

\* return stanza.Pipeline(**pipe_kwargs), outside any try
PipeRetry ==
    /\ comp = "pipe" /\ pc = "retry"
    /\ pipe_log' = Append(pipe_log, PipelineCall(pipe_package))
    /\ pc' = "done"
    /\ pipe_result' = IF pipe_env.second = "ok" THEN "returned" ELSE "Pipeline raised"
    /\ UNCHANGED <<comp, chunkerVars, streamVars, lexVars, cleanVars, ruleVars, mainVars,
                   postVars, pipe_args, pipe_env, pipe_package>>

NextPipe == PipeConstruct \/ PipeExcept \/ PipeFallback \/ PipeRetry

SpecPipe == InitPipe /\ [][NextPipe]_vars

-----------------------------------------------------------------------------
(* the whitespace post-processing applied to a text and then to its own     *)
(* outputs                                                                  *)

PostAlphabet == {"y", " ", "\n", "\t"}

InitPostTwice ==
    /\ comp = "post"
    /\ pc = "apply"
    /\ post_text \in SeqsUpTo(PostAlphabet, MaxPostLen)
    /\ post_outs = <<>>
    /\ ChunkerIdle
    /\ StreamIdle
    /\ LexIdle
    /\ CleanIdle
    /\ RulesIdle
    /\ MainIdle
    /\ PipeIdle

\* one application: to the text first, then to the last output
PostApply ==
    /\ comp = "post" /\ pc = "apply"
    /\ Len(post_outs) < MaxPasses
    /\ post_outs' = Append(post_outs,
                           PostProcess(IF post_outs = <<>> THEN post_text
                                       ELSE post_outs[Len(post_outs)]))
    /\ UNCHANGED <<comp, pc, chunkerVars, streamVars, lexVars, cleanVars, ruleVars,
                   mainVars, post_text, pipeVars>>

SpecPostTwice == InitPostTwice /\ [][PostApply]_vars

-----------------------------------------------------------------------------
(* run_clean_corpus: main and _clean_single_file *)

\* paths are sequences of components; "/" is the root
DefaultConfig == <<"/", "pkg", "sample.yml">>
CustomConfig == <<"/", "cfg", "custom.yml">>
Cwd == <<"/", "cwd">>
AbsRoot == <<"/", "abs">>

\* the directories a raw path of the config may end up under
Roots == {<<"/", "pkg">>, <<"/", "cfg">>, Cwd, AbsRoot}

Parent(p) == SubSeq(p, 1, Len(p) - 1)
Name(p) == p[Len(p)]
IsAbsolute(p) == p # <<>> /\ p[1] = "/"

\* the file names of the model in the order sorted() puts their paths
SortedNames == <<"a.TXT", "a.txt", "b.txt", "c.md", "d">>

\* Path.stem and Path.suffix on the names of the model
Stem(name) ==
    CASE name \in {"a.TXT", "a.txt"} -> "a"
      [] name = "b.txt" -> "b"
      [] name = "c.md" -> "c"
      [] name = "in.txt" -> "in"
      [] OTHER -> name

Suffix(name) ==
    CASE name = "a.TXT" -> ".TXT"
      [] name \in {"a.txt", "b.txt", "in.txt"} -> ".txt"
      [] name = "c.md" -> ".md"
      [] OTHER -> ""

\* p.suffix.lower()
SuffixLower(name) == IF Suffix(name) = ".TXT" THEN ".txt" ELSE Suffix(name)

\* src.suffix.lstrip(".")
Ext(name) ==
    CASE Suffix(name) = ".TXT" -> "TXT"
      [] Suffix(name) = ".txt" -> "txt"
      [] Suffix(name) = ".md" -> "md"
      [] OTHER -> ""

\* str(idx)
Str(n) == <<"0", "1", "2", "3", "4">>[n + 1]

\* mutant of Resolve: a relative path is taken from the working directory
Resolve_Cwd(config_dir, raw) == IF IsAbsolute(raw) THEN raw ELSE Cwd \o raw

\* Path(raw), made absolute against config_dir when it is relative
Resolve(config_dir, raw) == IF IsAbsolute(raw) THEN raw ELSE config_dir \o raw

\* a template is a sequence of literal pieces and replacement fields
Lit(str) == [kind |-> "lit", val |-> str]
Field(name) == [kind |-> "field", val |-> name]

NoTemplate == <<>>
IndexTemplate == <<Lit("cleaned_"), Field("index"), Lit(".txt")>>
BadTemplate == <<Field("foo"), Lit(".txt")>>
StemTemplate == <<Field("stem"), Lit(".cleaned."), Field("ext")>>

\* template.format(index=idx, stem=stem, ext=ext): the pieces of the name, or
\* a failure when a field is none of the three
Format(template, idx, stem, ext) ==
    IF \E n \in 1..Len(template) :
          template[n].kind = "field" /\ template[n].val \notin {"index", "stem", "ext"}
    THEN [ok |-> FALSE, name |-> <<>>]
    ELSE [ok |-> TRUE,
          name |-> [n \in 1..Len(template) |->
                       IF template[n].kind = "lit" THEN template[n].val
                       ELSE IF template[n].val = "index" THEN Str(idx)
                       ELSE IF template[n].val = "stem" THEN stem
                       ELSE ext]]

\* the file system
Exists(fs, p) == p \in fs.dirs \/ p \in fs.files \/ p = fs.config_at
IsDir(fs, p) == p \in fs.dirs

\* mkdir(parents=True, exist_ok=True)
Ancestors(p) == {SubSeq(p, 1, n) : n \in 1..Len(p)}
MkDirs(fs, p) == [fs EXCEPT !.dirs = @ \cup Ancestors(p)]

\* the text of the file that was at p from the start
TextAt(p) == [text_of |-> p]

\* clean_text as main sees it: a kind that is not known raises, else a string
\* that depends on the text and on the arguments is returned
MainCleanText(call) ==
    IF KindStrip(call.kind) \notin {"corpus_corporum", "scholastic_text"}
    THEN [ok |-> FALSE, error |-> "ValueError"]
    ELSE [ok |-> TRUE, text |-> [cleaned |-> call]]

\* f"{doc_id_prefix}:{stem}" or the stem alone
DocId(prefix, stem) == IF prefix # "" THEN <<prefix, ":", stem>> ELSE <<stem>>

\* _clean_single_file on the state st = [fs, reads, calls, writes]
CleanSingleFile(st, input_path, output_path, kind, ref_tsv, doc_id, rules_path, lexicon_map_path) ==
    LET read == [st EXCEPT !.reads = Append(@, input_path)]
        call == [raw |-> TextAt(input_path), kind |-> kind, ref_tsv |-> ref_tsv,
                 doc_id |-> doc_id, rules_path |-> rules_path,
                 lexicon_map_path |-> lexicon_map_path]
        called == [read EXCEPT !.calls = Append(@, call)]
        cleaned == MainCleanText(call)
    IN IF input_path \notin st.fs.files
       THEN [ok |-> FALSE, error |-> "FileNotFoundError", st |-> read]
       ELSE IF input_path \in st.fs.undecodable
       THEN [ok |-> FALSE, error |-> "UnicodeDecodeError", st |-> read]
       ELSE IF ~cleaned.ok
       THEN [ok |-> FALSE, error |-> cleaned.error, st |-> called]
       ELSE IF output_path \in st.fs.dirs
       THEN [ok |-> FALSE, error |-> "IsADirectoryError",
             st |-> [called EXCEPT !.fs = MkDirs(@, Parent(output_path))]]
       ELSE [ok |-> TRUE, error |-> "",
             st |-> [called EXCEPT
                       !.fs = [MkDirs(@, Parent(output_path))
                                 EXCEPT !.files = @ \cup {output_path}],
                       !.writes = Append(@, [path |-> output_path,
                                             text |-> cleaned.text])]]

\* the configs main may be given
YamlData(status, kind, input, output, template, ref, prefix, rules, lex) ==
    [status |-> status, kind |-> kind, input |-> input, output |-> output,
     output_filename_template |-> template, ref_tsv |-> ref, doc_id_prefix |-> prefix,
     rules_path |-> rules, lexicon_map_path |-> lex]

\* a file system in which every root holds a rule file and a lexicon file
BaseFs(config_at) ==
    [config_at |-> config_at,
     dirs |-> UNION {Ancestors(r) : r \in Roots},
     files |-> {r \o <<"rules.yml">> : r \in Roots} \cup {r \o <<"lex.tsv">> : r \in Roots},
     undecodable |-> {}]

\* the same entry put under every root
UnderRoots(name) == {r \o <<name>> : r \in Roots}

\* out under every root: not there, a directory or a file
WithOutput(fs, out_state) ==
    IF out_state = "dir" THEN [fs EXCEPT !.dirs = @ \cup UnderRoots("out")]
    ELSE IF out_state = "file" THEN [fs EXCEPT !.files = @ \cup UnderRoots("out")]
    ELSE fs

MainStartState ==
    /\ comp = "main"
    /\ pc = "start"
    /\ main_loc = NoLocals
    /\ main_reads = <<>>
    /\ main_calls = <<>>
    /\ main_writes = <<>>
    /\ main_result = "running"
    /\ ChunkerIdle
    /\ StreamIdle
    /\ LexIdle
    /\ CleanIdle
    /\ RulesIdle
    /\ MoreIdle

\* single-file mode: in.txt under every root is a file, a file that is not
\* UTF-8, or not there
InitMainFile ==
    /\ MainStartState
    /\ main_argv \in {<<>>, <<CustomConfig>>}
    /\ \E config_at \in {DefaultConfig, CustomConfig},
          in_state \in {"file", "undecodable", "missing"},
          out_state \in {"absent", "dir", "file"} :
          main_fs = LET fs == WithOutput(BaseFs(config_at), out_state)
                    IN IF in_state = "missing" THEN fs
                       ELSE [fs EXCEPT
                               !.files = @ \cup UnderRoots("in.txt"),
                               !.undecodable = IF in_state = "undecodable"
                                               THEN UnderRoots("in.txt") ELSE {}]
    /\ yaml_data \in
          {YamlData(status, kind, input, output, NoTemplate, ref, prefix, rules, lex) :
              status \in {"ok", "incomplete"},
              kind \in {"corpus_corporum", "other"},
              input \in {<<"in.txt">>, AbsRoot \o <<"in.txt">>},
              output \in {<<"out">>, AbsRoot \o <<"out">>},
              ref \in {<<>>, <<"ref.tsv">>},
              prefix \in {"", "P"},
              rules \in {<<>>, <<"rules.yml">>, <<"gone.yml">>},
              lex \in {<<>>, <<"lex.tsv">>, <<"gone.tsv">>}}

\* directory mode: in under the config's directory holds some of the names of
\* the model; d is a subdirectory, some of the .txt files are not UTF-8
InitMainDir ==
    /\ MainStartState
    /\ main_argv \in {<<>>, <<CustomConfig>>}
    /\ \E names \in SUBSET {SortedNames[n] : n \in 1..Len(SortedNames)},
          out_state \in {"absent", "dir", "file"} :
          \E bad \in SUBSET {nm \in names : SuffixLower(nm) = ".txt"} :
             main_fs = LET fs == WithOutput(BaseFs(CustomConfig), out_state)
                           in_dir == Parent(CustomConfig) \o <<"in">>
                       IN [fs EXCEPT
                             !.dirs = @ \cup {in_dir}
                                        \cup {in_dir \o <<nm>> : nm \in names \cap {"d"}},
                             !.files = @ \cup {in_dir \o <<nm>> : nm \in names \ {"d"}},
                             !.undecodable = {in_dir \o <<nm>> : nm \in bad}]
    /\ yaml_data \in
          {YamlData("ok", kind, <<"in">>, <<"out">>, template, <<>>, prefix, <<>>, <<>>) :
              kind \in {"corpus_corporum", "other"},
              template \in {NoTemplate, IndexTemplate, BadTemplate},
              prefix \in {"", "P"}}

\* an exception leaves main
MainRaise(err) ==
    /\ pc' = "raised"
    /\ main_result' = err

\* main from its entry to the choice between directory and single-file mode:
\* the config file, load_clean_config, and the paths resolved against the
\* directory of the config file
MainStart ==
    /\ comp = "main" /\ pc = "start"
    /\ LET config_path == IF main_argv # <<>> THEN main_argv[1] ELSE DefaultConfig
           config_dir == Parent(config_path)
           opt(raw) == IF raw # <<>> THEN Resolve(config_dir, raw) ELSE <<>>
           rules_path == opt(yaml_data.rules_path)
           lexicon_map_path == opt(yaml_data.lexicon_map_path)
       IN IF config_path # main_fs.config_at
          THEN MainRaise("FileNotFoundError") /\ UNCHANGED main_loc
          ELSE IF yaml_data.status # "ok"
          THEN MainRaise("ValueError") /\ UNCHANGED main_loc
          ELSE IF rules_path # <<>> /\ ~Exists(main_fs, rules_path)
          THEN MainRaise("FileNotFoundError") /\ UNCHANGED main_loc
          ELSE IF lexicon_map_path # <<>> /\ ~Exists(main_fs, lexicon_map_path)
          THEN MainRaise("FileNotFoundError") /\ UNCHANGED main_loc
          ELSE /\ main_loc' =
                     [config_path |-> config_path,
                      kind |-> yaml_data.kind,
                      filename_template |-> yaml_data.output_filename_template,
                      doc_id_prefix |-> yaml_data.doc_id_prefix,
                      input_path |-> Resolve(config_dir, yaml_data.input),
                      output_path |-> Resolve(config_dir, yaml_data.output),
                      ref_tsv |-> opt(yaml_data.ref_tsv),
                      rules_path |-> rules_path,
                      lexicon_map_path |-> lexicon_map_path,
                      sources |-> <<>>, effective_template |-> NoTemplate, idx |-> 0]
               /\ pc' = IF IsDir(main_fs, Resolve(config_dir, yaml_data.input))
                        THEN "dir" ELSE "file"
               /\ UNCHANGED main_result
    /\ UNCHANGED <<moreVars, comp, chunkerVars, streamVars, lexVars, cleanVars, ruleVars,
                   main_argv, main_fs, yaml_data, main_reads, main_calls, main_writes>>

\* mutant of MainAfterFile: an exception of _clean_single_file is caught and
\* main goes on
MainAfterFile_Caught(r, pc_next, result_next) ==
    /\ main_fs' = r.st.fs
    /\ main_reads' = r.st.reads
    /\ main_calls' = r.st.calls
    /\ main_writes' = r.st.writes
    /\ pc' = pc_next
    /\ main_result' = result_next

\* what main makes of the outcome r of _clean_single_file
MainAfterFile(r, pc_next, result_next) ==
    /\ main_fs' = r.st.fs
    /\ main_reads' = r.st.reads
    /\ main_calls' = r.st.calls
    /\ main_writes' = r.st.writes
    /\ pc' = IF r.ok THEN pc_next ELSE "raised"
    /\ main_result' = IF r.ok THEN result_next ELSE r.error

MainState == [fs |-> main_fs, reads |-> main_reads, calls |-> main_calls,
              writes |-> main_writes]

\* single-file mode
MainSingle ==
    /\ comp = "main" /\ pc = "file"
    /\ LET dst == IF IsDir(main_fs, main_loc.output_path)
                  THEN main_loc.output_path \o <<Name(main_loc.input_path)>>
                  ELSE main_loc.output_path
           doc_id == DocId(main_loc.doc_id_prefix, Stem(Name(main_loc.input_path)))
       IN MainAfterFile(
             CleanSingleFile(MainState, main_loc.input_path, dst, main_loc.kind,
                             main_loc.ref_tsv, doc_id, main_loc.rules_path,
                             main_loc.lexicon_map_path),
             "returned", "return 0")
    /\ UNCHANGED <<moreVars, comp, chunkerVars, streamVars, lexVars, cleanVars, ruleVars,
                   main_argv, yaml_data, main_loc>>

\* sorted(input_path.iterdir()) filtered to the files with suffix .txt
Sources(fs, input_path) ==
    LET txt == SelectSeq(SortedNames,
                         LAMBDA nm : /\ input_path \o <<nm>> \in fs.files
                                     /\ SuffixLower(nm) = ".txt")
    IN [n \in 1..Len(txt) |-> input_path \o <<txt[n]>>]

\* effective_template
EffectiveTemplate(filename_template, sources) ==
    LET stems == [n \in 1..Len(sources) |-> Stem(Name(sources[n]))]
        has_dup_stem == Len(stems) # Cardinality({stems[n] : n \in 1..Len(stems)})
    IN IF filename_template # NoTemplate
       THEN IF has_dup_stem THEN filename_template ELSE StemTemplate
       ELSE NoTemplate

\* directory mode up to the loop: the output must not be a file, is created,
\* and the sources and the template are fixed
MainList ==
    /\ comp = "main" /\ pc = "dir"
    /\ IF Exists(main_fs, main_loc.output_path) /\ ~IsDir(main_fs, main_loc.output_path)
       THEN /\ MainRaise("ValueError")
            /\ UNCHANGED <<main_fs, main_loc>>
       ELSE LET sources == Sources(main_fs, main_loc.input_path)
            IN /\ main_fs' = MkDirs(main_fs, main_loc.output_path)
               /\ main_loc' = [main_loc EXCEPT
                                 !.sources = sources,
                                 !.effective_template =
                                     EffectiveTemplate(main_loc.filename_template, sources),
                                 !.idx = 0]
               /\ pc' = "loop"
               /\ UNCHANGED main_result
    /\ UNCHANGED <<moreVars, comp, chunkerVars, streamVars, lexVars, cleanVars, ruleVars,
                   main_argv, yaml_data, main_reads, main_calls, main_writes>>

\* one iteration of the loop over the sources
MainFile ==
    /\ comp = "main" /\ pc = "loop"
    /\ main_loc.idx < Len(main_loc.sources)
    /\ LET idx == main_loc.idx + 1
           src == main_loc.sources[idx]
           named == IF main_loc.effective_template # NoTemplate
                    THEN Format(main_loc.effective_template, idx, Stem(Name(src)),
                                Ext(Name(src)))
                    ELSE [ok |-> TRUE, name |-> <<Name(src)>>]
           doc_id == DocId(main_loc.doc_id_prefix, Stem(Name(src)))
       IN /\ main_loc' = [main_loc EXCEPT !.idx = idx]
          /\ IF ~named.ok
             THEN /\ MainRaise("ValueError")
                  /\ UNCHANGED <<main_fs, main_reads, main_calls, main_writes>>
             ELSE MainAfterFile(
                     CleanSingleFile(MainState, src, main_loc.output_path \o named.name,
                                     main_loc.kind, main_loc.ref_tsv, doc_id,
                                     main_loc.rules_path, main_loc.lexicon_map_path),
                     "loop", "running")
    /\ UNCHANGED <<moreVars, comp, chunkerVars, streamVars, lexVars, cleanVars, ruleVars,
                   main_argv, yaml_data>>

\* the loop is over: return 0
MainDone ==
    /\ comp = "main" /\ pc = "loop"
    /\ main_loc.idx = Len(main_loc.sources)
    /\ pc' = "returned"
    /\ main_result' = "return 0"
    /\ UNCHANGED <<moreVars, comp, chunkerVars, streamVars, lexVars, cleanVars, ruleVars,
                   main_argv, main_fs, yaml_data, main_loc, main_reads, main_calls,
                   main_writes>>

NextMainFile == MainStart \/ MainSingle
NextMainDir == MainStart \/ MainList \/ MainFile \/ MainDone

SpecMainFile == InitMainFile /\ [][NextMainFile]_vars
SpecMainDir == InitMainDir /\ [][NextMainDir]_vars

-----------------------------------------------------------------------------
(* Claims *)

\* C1: for every text and every chunk size >= 1, the chunks yielded by
\* iter_char_chunks, concatenated in order, are the original text; at every
\* point of the iteration the chunks yielded so far are exactly text[0:i].
C1_Reconstruction ==
    comp = "chunker" =>
        /\ Concat(chunks) = SubSeq(text, 1, i)
        /\ (pc = "done" => Concat(chunks) = text)

\* a finished run that snapped a chunk end back to a separator and produced
\* several chunks
C1_Witness ==
    /\ comp = "chunker"
    /\ pc = "done"
    /\ Len(chunks) >= 2
    /\ \E n \in 1..Len(chunks) : Len(chunks[n]) < chunk_chars /\ n < Len(chunks)

\* the fast path run to its end as a function of its arguments
RECURSIVE FastRun(_, _, _, _, _)
FastRun(t, c, at, acc, cf) ==
    IF at >= Len(t) THEN acc
    ELSE LET it == ChunkIter(t, at, c)
             r == CountNouns(it.chunk, cf)
         IN FastRun(t, c, it.next,
                    [counter |-> Accumulate(acc.counter, r.counter),
                     ref |-> acc.ref (+) r.ref], cf)

\* count_nouns_streaming without a trace sink and chunk_chars = len(text)
SingleChunkTotal(t, cf) ==
    FastRun(t, Len(t), 0, [counter |-> EmptyBag, ref |-> EmptyBag], cf).counter

\* the offsets at which the text was cut so far
Boundaries == {Len(Concat(SubSeq(chunks, 1, n))) : n \in 1..Len(chunks)} \ {Len(text)}

\* no cut lies between two non-whitespace characters
NoTokenSplit == \A b \in Boundaries : IsSpace(text[b]) \/ IsSpace(text[b + 1])

FastDone == comp = "stream" /\ cfg.mode = "fast" /\ pc = "done"
TraceDone == comp = "stream" /\ cfg.mode = "trace" /\ pc = "done"

\* C2 as stated: for any text and any annotator, the fast path with any chunk
\* size returns the NounCounter of the single-chunk run (chunk_chars =
\* len(text)).
C2_AnyChunkSizeEqualsSingleChunk ==
    FastDone => total = SingleChunkTotal(text, cfg)

\* C2 amended: with an annotator that tokenizes on whitespace and tags every
\* token by itself, the fast path returns the NounCounter of the single-chunk
\* run whenever no chunk boundary fell strictly inside a whitespace-delimited
\* token.
C2_EqualsSingleChunkWhenNoTokenSplit ==
    (FastDone /\ NoTokenSplit) => total = SingleChunkTotal(text, cfg)

\* a finished multi-chunk fast run that split no token and counted nouns of
\* more than one chunk
C2_Witness ==
    /\ FastDone /\ NoTokenSplit
    /\ Len(chunks) >= 2
    /\ BagCardinality(total) >= 2
    /\ Len(nlp_calls) >= 2

\* C3: with the same arguments, the trace path returns the NounCounter of the
\* fast path and makes the same ref_tag_counter increments, for every document
\* model, also one whose sentences expose both tokens and words.
C3_TraceCountsAsFast ==
    TraceDone =>
        LET f == FastRun(text, chunk_chars, 0,
                         [counter |-> EmptyBag, ref |-> EmptyBag], cfg)
        IN total = f.counter /\ ref_tag_counter = f.ref

\* the target-tag hits the trace path's iteration meets in one chunk
HitsIn(chunk, cf) ==
    LET sents == Annotate(chunk, cf.shape, cf.offsets).sentences
        pairs == Concat([n \in 1..Len(sents) |-> IterSentenceWordsWithOffsets(sents[n])])
    IN Cardinality({n \in 1..Len(pairs) : pairs[n][1].upos \in cf.upos_targets})

RECURSIVE SumHits(_, _)
SumHits(cs, cf) == IF cs = <<>> THEN 0 ELSE HitsIn(Head(cs), cf) + SumHits(Tail(cs), cf)

DataRows == SelectSeq(trace_file.rows, LAMBDA r : r.kind = "data")

TraceRunning == comp = "stream" /\ cfg.mode = "trace" /\ pc \in {"loop", "done"}
                    /\ text # <<>>

\* C4: with a row cap n > 0 the trace log holds min(n, h) data rows, h the
\* target-tag hits met so far (all of them once the run is done), while every
\* one of the h hits was counted.
C4_CapStopsRowsNotCounting ==
    (TraceRunning /\ cfg.cap > 0) =>
        LET h == SumHits(chunks, cfg)
        IN /\ Len(DataRows) = (IF h < cfg.cap THEN h ELSE cfg.cap)
           /\ BagCardinality(total) + BagCardinality(ref_tag_counter) = h

\* a finished capped run of several chunks with more hits than the cap, the
\* last of them in a chunk after the one that reached the cap
C4_Witness ==
    /\ TraceDone /\ cfg.cap > 0 /\ text # <<>>
    /\ Len(DataRows) = cfg.cap
    /\ BagCardinality(total) > cfg.cap
    /\ HitsIn(chunks[Len(chunks)], cfg) > 0
    /\ SumHits(SubSeq(chunks, 1, Len(chunks) - 1), cfg) >= cfg.cap

\* C5: every trace row of a token with a start offset has text offset =
\* (lengths of the chunks before the token's chunk) + offset in the chunk; a
\* row of a token without one has both columns empty, and its token is counted.
C5_TextOffsetIsBasePlusChunkOffset ==
    TraceRunning =>
        /\ \A n \in 1..Len(DataRows) :
              LET r == DataRows[n]
                  base == Len(Concat(SubSeq(chunks, 1, r.chunk - 1)))
                  key == KeyOf([text |-> r.token, lemma |-> r.lemma], cfg.use_lemma)
              IN /\ r.sic # <<>> => r.sit = <<base + r.sic[1]>>
                 /\ r.sic = <<>> =>
                       /\ r.sit = <<>>
                       /\ IF r.ref_tag = "" THEN BagIn(key, total)
                          ELSE BagIn(r.ref_tag, ref_tag_counter)
        /\ ~cfg.offsets =>
              BagCardinality(total) + BagCardinality(ref_tag_counter)
                  = SumHits(chunks, cfg)

\* a row of a token of a later chunk, whose text offset exceeds its chunk offset
C5_Witness ==
    /\ TraceDone /\ text # <<>>
    /\ \E n \in 1..Len(DataRows) :
          /\ DataRows[n].chunk >= 2
          /\ DataRows[n].sic # <<>>
          /\ DataRows[n].sit[1] > DataRows[n].sic[1]

\* the body lines the loop of the call in progress has gone through
LinesDone == 1..(last.rel_i - 1)

\* the remove rules whose pattern matches the trimmed body line n
RemoveHits(n) ==
    {r \in 1..Len(last.patterns.remove) :
        IsPrefix(last.patterns.remove[r].pattern, Strip(last.body[n]))}

\* the events recorded for the body line n
EventsAt(n) == SelectSeq(last.events, LAMBDA e : e.line_no = n)

InCleaner == comp = "clean" /\ last # NoCall /\ last.outcome \in {"running", "ok"}

\* C6: in either cleaner, a body line whose trimmed form matches a remove
\* rule is discarded, and with a sink attached exactly one event is recorded
\* for it: a drop_line event with match_count 1 that names the first matching
\* rule of the rule set, and no substitute event; without a sink nothing is
\* recorded.  Only the lines that match no remove rule are kept.
C6_FirstRemoveRuleWins ==
    InCleaner =>
        /\ \A n \in LinesDone :
              RemoveHits(n) # {} =>
                  IF last.sink
                  THEN /\ Len(EventsAt(n)) = 1
                       /\ EventsAt(n)[1].action = "drop_line"
                       /\ EventsAt(n)[1].match_count = 1
                       /\ EventsAt(n)[1].rule_name
                             = last.patterns.remove[Min(RemoveHits(n))].name
                  ELSE EventsAt(n) = <<>>
        /\ Len(last.cleaned_lines) = Cardinality({n \in LinesDone : RemoveHits(n) = {}})

\* a line that two remove rules and a substitute rule match has been dropped
\* with a sink attached
C6_Witness ==
    /\ InCleaner
    /\ last.sink
    /\ \E n \in LinesDone :
          /\ Cardinality(RemoveHits(n)) >= 2
          /\ \E r \in 1..Len(last.patterns.substitute) :
                FindAllCount(last.patterns.substitute[r].pattern, last.body[n], 1) > 0
          /\ Len(EventsAt(n)) = 1

\* the lines of the text that, trimmed, consist of HeaderHashMin or more '#'
Terminators(lines) ==
    {n \in 1..Len(lines) :
        /\ Len(Strip(lines[n])) >= HeaderHashMin
        /\ \A q \in 1..Len(Strip(lines[n])) : Strip(lines[n])[q] = "#"}

\* C7: the body of a corpus_corporum call is the lines after the first
\* terminator line (all lines when there is none), the body of a
\* scholastic_text call is all lines, and every event carries the 1-based
\* position of its line in the body.
C7_HeaderSkipAndLineNumbers ==
    InCleaner =>
        LET lines == SplitLines(last.text)
            skip == IF last.kd = "corpus_corporum" /\ Terminators(lines) # {}
                    THEN Min(Terminators(lines)) ELSE 0
        IN /\ last.body = SubSeq(lines, skip + 1, Len(lines))
           /\ \A n \in 1..Len(last.events) :
                 LET e == last.events[n]
                 IN /\ e.line_no \in LinesDone
                    /\ e.text_snippet = IF e.action = "drop_line"
                                        THEN lines[skip + e.line_no]
                                        ELSE Strip(lines[skip + e.line_no])

\* a corpus_corporum call on a text with two terminator lines has recorded an
\* event for a line after the first of them
C7_Witness ==
    /\ InCleaner
    /\ last.kd = "corpus_corporum"
    /\ last.outcome = "ok"
    /\ Cardinality(Terminators(SplitLines(last.text))) >= 2
    /\ Min(Terminators(SplitLines(last.text))) = 1
    /\ last.events # <<>>

HeaderRows == {n \in 1..Len(ref_log.rows) : ref_log.rows[n] = RefHeader}

\* C8: when the log did not exist before the first call, it holds exactly one
\* header row, as its first row, once it exists; and no step changes or
\* removes a row that is already in the log.
C8_AppendOnlySingleHeader ==
    /\ [](comp = "clean" /\ ~log_preexisted /\ ref_log.exists => HeaderRows = {1})
    /\ [][/\ Len(ref_log.rows) <= Len(ref_log'.rows)
          /\ SubSeq(ref_log'.rows, 1, Len(ref_log.rows)) = ref_log.rows]_vars

\* two calls have each added event rows to a log that did not exist before
C8_Witness ==
    /\ comp = "clean"
    /\ ~log_preexisted
    /\ calls = MaxCalls
    /\ \E n \in 1..Len(ref_log.rows) :
          ref_log.rows[n] # RefHeader /\ ref_log.rows[n].doc_id = 1
    /\ \E n \in 1..Len(ref_log.rows) :
          ref_log.rows[n] # RefHeader /\ ref_log.rows[n].doc_id = 2

\* the text with every hit replaced by the value its key maps to, from the
\* 0-based position pos on
RECURSIVE Replaced(_, _, _, _)
Replaced(s, hits, m, pos) ==
    IF pos >= Len(s) THEN <<>>
    ELSE IF hits # <<>> /\ Head(hits).at = pos
    THEN DictGet(m, Head(hits).key)
         \o Replaced(s, Tail(hits), m, pos + Len(Head(hits).key))
    ELSE <<s[pos + 1]>> \o Replaced(s, hits, m, pos + 1)

\* C9: every replaced occurrence is an occurrence of a key of the mapping
\* with a word boundary on both sides, no longer key of the mapping is a
\* whole word at the same position, and the result is the text with the
\* replaced occurrences mapped and everything else unchanged.
C9_WholeWordLongestKey ==
    comp = "lex_apply" =>
        /\ \A h \in 1..Len(lex_scan.hits) :
              LET hit == lex_scan.hits[h]
              IN /\ DictHas(lex_map, hit.key)
                 /\ MatchesAt(hit.key, lex_text, hit.at + 1)
                 /\ WordBoundary(lex_text, hit.at)
                 /\ WordBoundary(lex_text, hit.at + Len(hit.key))
                 /\ \A n \in 1..Len(lex_map) :
                       ~ /\ Len(lex_map[n].src) > Len(hit.key)
                         /\ MatchesAt(lex_map[n].src, lex_text, hit.at + 1)
                         /\ WordBoundary(lex_text, hit.at + Len(lex_map[n].src))
        /\ pc = "done" => lex_scan.out = Replaced(lex_text, lex_scan.hits, lex_map, 0)

\* a two-word key has been replaced where its one-word prefix, inserted
\* before it, is a whole word too
C9_Witness ==
    /\ comp = "lex_apply"
    /\ pc = "done"
    /\ \E h \in 1..Len(lex_scan.hits) :
          /\ lex_scan.hits[h].key = Chars_x_y
          /\ DictHas(lex_map, Chars_x)
          /\ WordBoundary(lex_text, lex_scan.hits[h].at + 1)
    /\ lex_scan.out # lex_text

\* the lines of the file that are neither blank nor comments
DataLines == {n \in 1..Len(SplitLines(lex_text)) :
                 /\ Strip(SplitLines(lex_text)[n]) # <<>>
                 /\ Strip(SplitLines(lex_text)[n])[1] # "#"}

\* C10: loading fails exactly when some line that is neither blank nor a
\* comment does not have exactly two tab-separated fields.
C10_FailsUnlessExactlyTwoFields ==
    (comp = "lex_load" /\ pc \in {"ok", "error"}) =>
        (pc = "error" <=>
            \E n \in DataLines : Len(SplitOn(Strip(SplitLines(lex_text)[n]), "\t")) # 2)

\* the items of a list of the rule file that have no pattern field or a
\* pattern that does not compile
BadEntries(entries) ==
    {n \in 1..Len(entries) : ~entries[n].pattern.present \/ ~entries[n].pattern.compiles}

RulesOver == comp = "rules" /\ pc \in {"ok", "error"}

\* C11: a load that fails returns no rule lists, and the load fails when the
\* file is missing or malformed or when any entry of either list has no
\* pattern field or a pattern that does not compile.
C11_LoadAllOrNothing ==
    RulesOver =>
        /\ pc = "error" => remove_line_rules = <<>> /\ substitute_rules = <<>>
        /\ (\/ rule_file.status # "ok"
            \/ BadEntries(rule_file.remove_line_patterns) # {}
            \/ BadEntries(rule_file.substitute_patterns) # {}) => pc = "error"

\* the enabled items of a list of the rule file that have no pattern field or
\* a pattern that does not compile
BadEnabledEntries(entries) ==
    {n \in BadEntries(entries) : entries[n].enabled \in {"true", "absent"}}

\* C11 (amended): a load that fails returns no rule lists, and the load fails
\* when the file is missing or malformed or when any entry of either list
\* whose enabled flag is true or absent has no pattern field or a pattern that
\* does not compile.
C11_LoadAllOrNothingEnabled ==
    RulesOver =>
        /\ pc = "error" => remove_line_rules = <<>> /\ substitute_rules = <<>>
        /\ (\/ rule_file.status # "ok"
            \/ BadEnabledEntries(rule_file.remove_line_patterns) # {}
            \/ BadEnabledEntries(rule_file.substitute_patterns) # {}) => pc = "error"

\* a load has failed on the second remove-line entry, after the first had been
\* compiled into the list
C11_Witness ==
    /\ comp = "rules" /\ pc = "error"
    /\ rule_file.status = "ok"
    /\ BadEnabledEntries(rule_file.remove_line_patterns) = {2}
    /\ rule_file.remove_line_patterns[1].enabled = "true"
    /\ remove_line_rules = <<>>

\* the names of the rules of a list, in order
RuleNames(rules) == [n \in 1..Len(rules) |-> rules[n].name]

\* the entries of a list of the file whose enabled flag is true or absent
EnabledEntries(entries) ==
    SelectSeq(entries, LAMBDA e : e.enabled \in {"true", "absent"})

\* C12: a load that succeeds returns, for the remove-line list and for the
\* substitute list separately, exactly the entries whose enabled flag is true
\* or absent, in file order.
C12_EnabledEntriesInFileOrder ==
    (comp = "rules" /\ pc = "ok") =>
        /\ RuleNames(remove_line_rules)
              = RuleNames(EnabledEntries(rule_file.remove_line_patterns))
        /\ RuleNames(substitute_rules)
              = RuleNames(EnabledEntries(rule_file.substitute_patterns))

\* a load has succeeded on a file whose first remove-line entry is disabled,
\* whose second is not, and whose substitute entry is disabled
C12_Witness ==
    /\ comp = "rules" /\ pc = "ok"
    /\ Len(rule_file.remove_line_patterns) = 2
    /\ rule_file.remove_line_patterns[1].enabled = "false"
    /\ Len(remove_line_rules) = 1
    /\ remove_line_rules[1].name = <<"remove", 2>>
    /\ Len(rule_file.substitute_patterns) = 1
    /\ substitute_rules = <<>>

\* the kind argument of the last call is, trimmed, neither of the two kinds
UnknownKind ==
    last.kind \notin {"corpus_corporum", " corpus_corporum ", "scholastic_text"}

CallOver == comp = "clean" /\ pc = "idle" /\ calls = 1

\* C13: a clean_text call whose kind is, after trimming, neither
\* corpus_corporum nor scholastic_text (the empty and the missing kind
\* included) fails with a ConfigError, returns no text, loads no rule file and
\* leaves the event sink as it was.
C13_UnknownKindConfigError ==
    (CallOver /\ UnknownKind) =>
        /\ last.outcome = "error" /\ last.error = "ConfigError"
        /\ last.out = <<>>
        /\ last.rules_path = "none"
        /\ ref_log = [exists |-> log_preexisted, rows |-> <<>>]

\* C13 (amended): the same call fails with a ValueError, returns no text,
\* loads no rule file and leaves the event sink as it was.
C13_UnknownKindValueError ==
    (CallOver /\ UnknownKind) =>
        /\ last.outcome = "error" /\ last.error = "ValueError"
        /\ last.out = <<>>
        /\ last.rules_path = "none"
        /\ ref_log = [exists |-> log_preexisted, rows |-> <<>>]

\* a call with a missing kind, a sink that does not exist yet and a text the
\* default rules would record events for has failed
C13_Witness ==
    /\ CallOver
    /\ last.kind = "None"
    /\ last.sink
    /\ ~log_preexisted
    /\ last.text = TextOfLines(<<Line_xy>>)
    /\ last.outcome = "error"

\* s has n or more ch in a row somewhere
HasRun(s, ch, n) ==
    \E q \in 1..(Len(s) - n + 1) : \A d \in 0..(n - 1) : s[q + d] = ch

\* a call without a lexicon map has returned
Returned == CallOver /\ last.outcome = "ok" /\ ~last.lex_given

\* C14: the text a cleaner returns when no lexicon map is given ends with a
\* newline, has no whitespace before that newline and none at its start, has
\* no run of 3 newlines and no run of 2 spaces, and is a single newline when
\* the body is empty or every body line was dropped.
C14_ReturnedTextIsNormalised ==
    Returned =>
        /\ Len(last.out) >= 1
        /\ last.out[Len(last.out)] = "\n"
        /\ Len(last.out) > 1 =>
              /\ last.out[1] \notin {" ", "\n", "\t"}
              /\ last.out[Len(last.out) - 1] \notin {" ", "\n", "\t"}
        /\ ~HasRun(last.out, "\n", 3)
        /\ ~HasRun(last.out, " ", 2)
        /\ last.cleaned_lines = <<>> => last.out = <<"\n">>

\* a call has returned whose joined lines held a run of 3 newlines and a run
\* of 2 spaces between two words
C14_Witness ==
    /\ Returned
    /\ HasRun(JoinLines(last.cleaned_lines), "\n", 3)
    /\ HasRun(JoinLines(last.cleaned_lines), " ", 2)
    /\ Len(last.out) > 4
    /\ Len(last.out) < Len(JoinLines(last.cleaned_lines)) + 1

\* every line of a non-empty body has been dropped and a single newline returned
C14_WitnessDropped ==
    /\ Returned
    /\ last.body # <<>>
    /\ \A n \in 1..Len(last.body) : RemoveHits(n) # {}
    /\ last.out = <<"\n">>

\* the words the path of the run goes through in the document of one chunk
PathWords(chunk) ==
    LET sents == Annotate(chunk, cfg.shape, cfg.offsets).sentences
    IN Concat([n \in 1..Len(sents) |->
                  IF cfg.mode = "fast" THEN IterSentenceWords(sents[n])
                  ELSE LET pairs == IterSentenceWordsWithOffsets(sents[n])
                       IN [q \in 1..Len(pairs) |-> pairs[q][1]]])

\* the hits of the run so far: the keys of the target words, in order
HitKeys ==
    LET ws == Concat([n \in 1..Len(nlp_calls) |-> PathWords(nlp_calls[n])])
        nouns == SelectSeq(ws, LAMBDA w : w.upos \in cfg.upos_targets)
        keys == [n \in 1..Len(nouns) |-> KeyOf(nouns[n], cfg.use_lemma)]
    IN SelectSeq(keys, LAMBDA key : key # <<>>)

\* how many of the hits satisfy Test
HitCount(Test(_)) == Len(SelectSeq(HitKeys, Test))

\* the label the detector of the run gives a key: none without a detector
TagOf(key) == IF cfg.ref = "none" THEN "" ELSE Detector(key)

\* C15: in both paths every hit the detector labels adds one to the
\* reference-tag counter for that label when a counter is supplied and nothing
\* to the noun counter, and every other hit adds one to the noun counter for
\* its key.
C15_TaggedHitsAreDiverted ==
    comp = "stream" =>
        /\ \A key \in {HitKeys[n] : n \in 1..Len(HitKeys)} \cup BagToSet(total) :
              CopiesIn(key, total)
                 = HitCount(LAMBDA h : h = key /\ TagOf(h) = "")
        /\ \A tag \in {"REF"} \cup BagToSet(ref_tag_counter) :
              CopiesIn(tag, ref_tag_counter)
                 = IF cfg.ref = "counted" THEN HitCount(LAMBDA h : TagOf(h) = tag) ELSE 0

\* a run has reached the end of a text with one labelled and one unlabelled
\* hit while a counter is supplied
C15_Witness ==
    /\ comp = "stream" /\ pc = "done"
    /\ cfg.ref = "counted"
    /\ cfg.shape = "tokens"
    /\ CopiesIn("REF", ref_tag_counter) = 1
    /\ BagCardinality(total) = 1
    /\ \E n \in 1..Len(HitKeys) : TagOf(HitKeys[n]) = "REF"

\* main has got past its start
MainEntered == comp = "main" /\ main_loc.config_path # <<>>

\* the n-th name of the sorted directory listing that is a .txt file
TxtNames ==
    SelectSeq(SortedNames,
              LAMBDA nm : /\ main_loc.input_path \o <<nm>> \in main_fs.files
                          /\ Suffix(nm) \in {".txt", ".TXT"})

\* C16: in directory mode with output_filename_template set in the config,
\* the n-th output is written under the name the configured template gives
\* for index n and the stem and the extension of the n-th .txt source.
C16_ConfiguredTemplateNamesOutputs ==
    (MainEntered /\ yaml_data.output_filename_template # NoTemplate) =>
        \A n \in 1..Len(main_writes) :
            LET named == Format(yaml_data.output_filename_template, n,
                                Stem(TxtNames[n]), Ext(TxtNames[n]))
            IN named.ok => main_writes[n].path = main_loc.output_path \o named.name

\* C17: in directory mode the .txt sources are read in sorted order, each is
\* read only after the one before it has been cleaned and written, and once a
\* file has failed main has raised: the outputs of the files before it are
\* there and no later file is read, cleaned or written.
C17_FailureStopsTheBatch ==
    (MainEntered /\ pc \in {"loop", "returned", "raised"}) =>
        /\ Len(main_reads) <= Len(TxtNames)
        /\ \A n \in 1..Len(main_reads) :
              main_reads[n] = main_loc.input_path \o <<TxtNames[n]>>
        /\ \A n \in 1..Len(main_calls) : main_calls[n].raw = TextAt(main_reads[n])
        /\ \A n \in 1..Len(main_writes) :
              /\ main_writes[n].text = [cleaned |-> main_calls[n]]
              /\ main_writes[n].path \in main_fs.files
        /\ Len(main_writes) <= Len(main_calls)
        /\ Len(main_calls) <= Len(main_reads)
        /\ Len(main_reads) <= Len(main_writes) + 1
        /\ Len(main_reads) = Len(main_writes) + 1 => pc = "raised"
        /\ pc = "raised" /\ main_loc.idx >= 1 => Len(main_writes) = main_loc.idx - 1
        /\ pc = "returned" => Len(main_writes) = Len(TxtNames)

\* the second of three sources could not be read: main has raised with the
\* first output written
C17_Witness ==
    /\ MainEntered /\ pc = "raised"
    /\ main_result = "UnicodeDecodeError"
    /\ Len(TxtNames) = 3
    /\ main_loc.idx = 2
    /\ Len(main_reads) = 2
    /\ Len(main_writes) = 1

\* the directory of the config file main uses
UsedConfigDir == Parent(IF main_argv # <<>> THEN main_argv[1] ELSE DefaultConfig)

\* a raw path of the config, taken from that directory when it is relative;
\* an option that is not set stays unset
FromConfigDir(raw) ==
    IF raw = <<>> THEN <<>>
    ELSE IF raw[1] = "/" THEN raw ELSE UsedConfigDir \o raw

\* the one clean_text call the claim describes
ExpectedCall ==
    [raw |-> TextAt(FromConfigDir(yaml_data.input)),
     kind |-> yaml_data.kind,
     ref_tsv |-> FromConfigDir(yaml_data.ref_tsv),
     doc_id |-> IF yaml_data.doc_id_prefix # ""
                THEN <<yaml_data.doc_id_prefix, ":", "in">> ELSE <<"in">>,
     rules_path |-> FromConfigDir(yaml_data.rules_path),
     lexicon_map_path |-> FromConfigDir(yaml_data.lexicon_map_path)]

\* C18: a single-file run that returns has read the input resolved against
\* the directory of the config file it used, has called clean_text once with
\* that text, the configured kind, the doc_id and the resolved option paths,
\* has written the returned string to the resolved output path, and returns 0.
C18_SingleFileWritesToOutputPath ==
    (comp = "main" /\ pc = "returned") =>
        /\ main_result = "return 0"
        /\ main_reads = <<FromConfigDir(yaml_data.input)>>
        /\ main_calls = <<ExpectedCall>>
        /\ main_writes = <<[path |-> FromConfigDir(yaml_data.output),
                            text |-> [cleaned |-> ExpectedCall]]>>

\* C18 (amended): the same, the returned string being written to the resolved
\* output path or, when that path is a directory, to the file named like the
\* input inside it.
C18_SingleFileWritesToOutputPathOrInto ==
    (comp = "main" /\ pc = "returned") =>
        /\ main_result = "return 0"
        /\ main_reads = <<FromConfigDir(yaml_data.input)>>
        /\ main_calls = <<ExpectedCall>>
        /\ main_writes =
              <<[path |-> IF FromConfigDir(yaml_data.output) \in main_fs.dirs
                          THEN FromConfigDir(yaml_data.output) \o <<"in.txt">>
                          ELSE FromConfigDir(yaml_data.output),
                 text |-> [cleaned |-> ExpectedCall]]>>

\* a run on the default config with relative input, output, rules, lexicon
\* and ref_tsv paths and a doc_id prefix has returned
C18_Witness ==
    /\ comp = "main" /\ pc = "returned"
    /\ main_argv = <<>>
    /\ yaml_data.input = <<"in.txt">>
    /\ yaml_data.output = <<"out">>
    /\ yaml_data.rules_path = <<"rules.yml">>
    /\ yaml_data.lexicon_map_path = <<"lex.tsv">>
    /\ yaml_data.ref_tsv = <<"ref.tsv">>
    /\ yaml_data.doc_id_prefix = "P"
    /\ Len(main_writes) = 1

\* the separators iter_char_chunks searches for
IsSep(ch) == ch \in {" ", "\n"}

\* 0-based offset at which the n-th yielded chunk starts, and where it ends
ChunkStartAt(n) == Len(Concat(SubSeq(chunks, 1, n - 1)))
ChunkEndAt(n) == ChunkStartAt(n) + Len(chunks[n])

\* the yielded chunks that were cut before the end of the text
CutChunks == {n \in 1..Len(chunks) : ChunkEndAt(n) < Len(text)}

\* the boundary after the n-th chunk lies strictly inside a token delimited by
\* the characters of W
SplitsToken(n, W(_)) == ~W(text[ChunkEndAt(n)]) /\ ~W(text[ChunkEndAt(n) + 1])

\* C19 (as stated): a chunk boundary never falls strictly inside a
\* whitespace-delimited token, except when the window of the chunk being cut
\* holds no whitespace or newline character at all, and then the chunk is cut at
\* the size limit.
C19_NoSplitUnlessNoWhitespace ==
    comp = "chunker" =>
        \A n \in CutChunks :
            SplitsToken(n, IsSpace) =>
                /\ \A p \in 1..Len(chunks[n]) : ~IsSpace(chunks[n][p])
                /\ Len(chunks[n]) = chunk_chars

\* C19 (amended): a chunk boundary never falls strictly inside a token delimited
\* by spaces and newlines, except when the window of the chunk being cut holds
\* no space or newline after its first character, and then the chunk is cut at
\* the size limit.
C19_NoSplitUnlessNoSeparatorAfterFirst ==
    comp = "chunker" =>
        \A n \in CutChunks :
            SplitsToken(n, IsSep) =>
                /\ \A p \in 2..Len(chunks[n]) : ~IsSep(chunks[n][p])
                /\ Len(chunks[n]) = chunk_chars

\* a finished run with a boundary right after a separator, and a forced cut
\* inside a token whose window starts with a separator
C19_Witness ==
    /\ comp = "chunker"
    /\ pc = "done"
    /\ \E n \in CutChunks : Len(chunks[n]) >= 2 /\ IsSep(text[ChunkEndAt(n)])
    /\ \E n \in CutChunks : SplitsToken(n, IsSep) /\ IsSep(chunks[n][1])

\* C20: for every text and every chunk size >= 1 the iteration terminates: each
\* iteration advances the offset by at least one character and yields the
\* non-empty chunk it advanced over, also on text without space or newline, and
\* the loop ends, with the offset at the end of the text, without an empty chunk.
C20_AdvancesAndTerminates ==
    /\ [][comp = "chunker" /\ chunks' # chunks =>
            /\ i' >= i + 1
            /\ i' <= Len(text)
            /\ chunks' = Append(chunks, SubSeq(text, i + 1, i'))]_vars
    /\ [](comp = "chunker" /\ pc = "done" =>
            /\ i = Len(text)
            /\ \A n \in 1..Len(chunks) : chunks[n] # <<>>)
    /\ <>(pc = "done")

\* a finished run over a text without space or newline, longer than the window
C20_Witness ==
    /\ comp = "chunker"
    /\ pc = "done"
    /\ Len(text) > chunk_chars
    /\ \A p \in 1..Len(text) : ~IsSep(text[p])
    /\ Len(chunks) >= 2

\* the content of the body line n when the loop over the body lines takes it
\* up (corpus_corporum removes trailing newlines first)
LineAt(n) ==
    IF last.kd = "corpus_corporum" THEN RStripNewline(last.body[n]) ELSE last.body[n]

\* the content of the body line n after the first r substitute rules
RECURSIVE Stage(_, _)
Stage(n, r) ==
    IF r = 0 THEN LineAt(n)
    ELSE LET rule == last.patterns.substitute[r]
             before == Stage(n, r - 1)
         IN IF FindAllCount(rule.pattern, before, 1) > 0
            THEN ReSub(rule.pattern, rule.repl, before, 1)
            ELSE before

\* the substitute rules that have matches in the content the earlier rules
\* left of the body line n
Firing(n) ==
    {r \in 1..Len(last.patterns.substitute) :
        FindAllCount(last.patterns.substitute[r].pattern, Stage(n, r - 1), 1) > 0}

\* the body lines gone through that no remove rule dropped
KeptLines == {n \in LinesDone : RemoveHits(n) = {}}

\* the position in cleaned_lines of the kept body line n
KeptIndex(n) == Cardinality({m \in KeptLines : m <= n})

\* C21: for a line that is not dropped the substitute rules are applied in
\* rule-set order, each to the output of the previous one; a rule without a
\* match leaves the line as it is and emits no event; a rule with c > 0
\* matches rewrites the line and, with a sink attached, emits exactly one
\* substitute event with match_count = c, counted before its substitution.
C21_SubstituteRulesInOrder ==
    InCleaner =>
        \A n \in KeptLines :
            LET rules == last.patterns.substitute
                fired == SortedSeq(Firing(n))
                final == Stage(n, Len(rules))
            IN /\ last.cleaned_lines[KeptIndex(n)]
                     = IF last.kd = "corpus_corporum" THEN TabsToSpaces(final) ELSE final
               /\ IF last.sink
                  THEN /\ Len(EventsAt(n)) = Len(fired)
                       /\ \A q \in 1..Len(fired) :
                             /\ EventsAt(n)[q].action = "substitute"
                             /\ EventsAt(n)[q].rule_name = rules[fired[q]].name
                             /\ EventsAt(n)[q].match_count
                                   = FindAllCount(rules[fired[q]].pattern,
                                                  Stage(n, fired[q] - 1), 1)
                  ELSE EventsAt(n) = <<>>

\* with a sink attached, the second rule has fired on a line only because of
\* what the first rule made of it, and another kept line saw no rule fire
C21_Witness ==
    /\ InCleaner
    /\ last.sink
    /\ \E n \in KeptLines :
          /\ Firing(n) = {1, 2}
          /\ FindAllCount(last.patterns.substitute[2].pattern, LineAt(n), 1) = 0
          /\ Len(EventsAt(n)) = 2
    /\ \E n \in KeptLines : Firing(n) = {} /\ LineAt(n) # <<>>

\* the events of the body line n carry these snippets, in order
SnippetsAt(n) == [q \in 1..Len(EventsAt(n)) |-> EventsAt(n)[q].text_snippet]

\* the drop_line event of every dropped line carries the line as it was read,
\* cut to the snippet bound
DropSnippets ==
    \A n \in LinesDone \ KeptLines :
        SnippetsAt(n) = <<Truncate(LineAt(n), last.snippet_chars)>>

\* C22 (as stated): the snippet of the event of the q-th rule that fires on a
\* line is the trimmed content the line had immediately before that rule's
\* substitution, cut to the snippet bound; a drop_line event carries the
\* original line cut to the same bound.
C22_SnippetIsLineBeforeItsRule ==
    InCleaner /\ last.sink =>
        /\ DropSnippets
        /\ \A n \in KeptLines :
              LET fired == SortedSeq(Firing(n))
              IN SnippetsAt(n) =
                    [q \in 1..Len(fired) |->
                        Truncate(Strip(Stage(n, fired[q] - 1)), last.snippet_chars)]

\* C22 (amended): the snippet of every substitute event of a line is the
\* trimmed content the line had before any substitution, cut to the snippet
\* bound; a drop_line event carries the original line cut to the same bound.
C22_SnippetIsOriginalLine ==
    InCleaner /\ last.sink =>
        /\ DropSnippets
        /\ \A n \in KeptLines :
              SnippetsAt(n) =
                 [q \in 1..Cardinality(Firing(n)) |->
                     Truncate(Strip(LineAt(n)), last.snippet_chars)]

\* a direct call with a small snippet bound has dropped a line longer than the
\* bound that starts with a space, and has seen two rules fire on a kept line
\* whose trimmed form is longer than the bound
C22_Witness ==
    /\ InCleaner
    /\ last.sink
    /\ last.snippet_chars = SmallSnippet
    /\ \E n \in LinesDone \ KeptLines :
          /\ Len(LineAt(n)) > SmallSnippet
          /\ LineAt(n) # Strip(LineAt(n))
          /\ Len(EventsAt(n)) = 1
    /\ \E n \in KeptLines :
          /\ Len(EventsAt(n)) = 2
          /\ LineAt(n) # Strip(LineAt(n))
          /\ Len(Strip(LineAt(n))) > SmallSnippet
          /\ Stage(n, 1) # LineAt(n)

\* the position of the rule an event names in the rule list of its action
RuleIndex(e) ==
    LET rules == IF e.action = "drop_line" THEN last.patterns.remove
                 ELSE last.patterns.substitute
    IN CHOOSE r \in 1..Len(rules) : rules[r].name = e.rule_name

\* the events of the call are in line order, and in rule order within a line
EventsInOrder(events) ==
    \A p, q \in 1..Len(events) :
        p < q =>
            \/ events[p].line_no < events[q].line_no
            \/ /\ events[p].line_no = events[q].line_no
               /\ RuleIndex(events[p]) < RuleIndex(events[q])

\* C23: the sink changes only in the step that ends a successful call with a
\* sink, after all body lines are processed and the lexicon map is applied, and
\* then by one batch: the header when the log is new, followed by the events of
\* the call in line order and rule order; a call that fails, and a call without
\* a sink, leave the log exactly as it was.
C23_SinkWrittenOnceAtTheEnd ==
    [][comp = "clean" =>
         /\ ref_log' # ref_log =>
               /\ calls' = calls + 1
               /\ last.sink
               /\ last'.outcome = "ok"
               /\ last.rel_i > Len(last.body)
         /\ calls' = calls + 1 /\ last'.outcome = "ok" /\ last'.sink =>
               /\ ref_log'.exists
               /\ ref_log'.rows = (IF ref_log.exists THEN ref_log.rows ELSE <<RefHeader>>)
                                  \o last.events
               /\ EventsInOrder(last.events)
         /\ calls' = calls + 1 /\ (last'.outcome = "error" \/ ~last'.sink) =>
               ref_log' = ref_log]_vars

\* a second call with a sink has failed on its lexicon map after recording
\* events, and the log holds only what the first call, which recorded two
\* events for one line, wrote
C23_Witness ==
    /\ comp = "clean"
    /\ calls = MaxCalls
    /\ last.outcome = "error"
    /\ last.sink
    /\ last.lex_given
    /\ last.events # <<>>
    /\ Len(ref_log.rows) = 3
    /\ HeaderRows = {1}
    /\ \A n \in 2..Len(ref_log.rows) : ref_log.rows[n].doc_id = 1
    /\ ref_log.rows[2].line_no = ref_log.rows[3].line_no

\* C24: the global_row values of the data rows of a trace log are 1, 2, ..., n
\* in file order across all chunks, the counter moves only with a row that is
\* written (never for a hit the cap suppresses), and the chunk indices of the
\* rows never decrease.
C24_GlobalRowCountsWrittenRows ==
    TraceRunning =>
        /\ \A n \in 1..Len(DataRows) : DataRows[n].global_row = n
        /\ global_row = Len(DataRows)
        /\ trace_file.rows = <<TraceHeader>> \o DataRows
        /\ \A n \in 1..(Len(DataRows) - 1) : DataRows[n].chunk <= DataRows[n + 1].chunk
        /\ \A n \in 1..Len(DataRows) : DataRows[n].chunk \in 1..Len(chunks)

\* a finished capped run whose rows come from two chunks and whose later hits
\* were suppressed by the cap
C24_Witness ==
    /\ TraceDone /\ text # <<>>
    /\ cfg.cap = Len(DataRows)
    /\ Len(DataRows) >= 2
    /\ DataRows[1].chunk < DataRows[2].chunk
    /\ SumHits(chunks, cfg) > Len(DataRows)

\* C25: every chunk yielded with chunk size c >= 1 is non-empty and at most c
\* characters long, also when its end was snapped to just after a separator.
C25_ChunksWithinSize ==
    comp = "chunker" =>
        \A n \in 1..Len(chunks) : Len(chunks[n]) \in 1..chunk_chars

\* a finished run with a chunk that was snapped short of the size limit and a
\* chunk of exactly the size limit
C25_Witness ==
    /\ comp = "chunker"
    /\ pc = "done"
    /\ chunk_chars = MaxChunk
    /\ \E n \in CutChunks :
          Len(chunks[n]) < chunk_chars /\ IsSep(chunks[n][Len(chunks[n])])
    /\ \E n \in 1..Len(chunks) : Len(chunks[n]) = chunk_chars

InStream == comp = "stream" /\ cfg.mode \in {"fast", "trace"}

\* the chunks that are not made only of whitespace
Visible(cs) == SelectSeq(cs, LAMBDA c : Strip(c) # <<>>)

\* C26 (as stated): in the fast path and in the trace path alike the annotator
\* is called exactly once for each chunk, in chunk order, with that chunk as
\* its argument, also for chunks made only of whitespace, and never for an
\* empty text.
C26_AnnotatorCalledOncePerChunk ==
    InStream => nlp_calls = chunks

\* C26 (amended): the trace path calls the annotator exactly once for each
\* chunk, in chunk order, with that chunk as its argument, also for chunks made
\* only of whitespace; the fast path calls it exactly once for each chunk that
\* is not made only of whitespace, in chunk order; neither calls it for an
\* empty text.
C26_AnnotatorCalledOncePerVisibleChunk ==
    InStream =>
        /\ nlp_calls = IF cfg.mode = "trace" THEN chunks ELSE Visible(chunks)
        /\ text = <<>> => nlp_calls = <<>>
        /\ Len(chunks) = k

\* a finished fast run over a chunk of whitespace followed by a chunk with a
\* token: only the second was annotated
C26_Witness ==
    /\ FastDone
    /\ Len(chunks) >= 2
    /\ Strip(chunks[1]) = <<>>
    /\ nlp_calls = <<chunks[Len(chunks)]>>

\* C27: the whitespace post-processing (3+ newlines to two, then 2+ spaces to
\* one, then strip and one newline) is idempotent: applied to its own output
\* it returns that output unchanged, for every input text.
C27_PostProcessingIdempotent ==
    comp = "post" =>
        \A n \in 2..Len(post_outs) : post_outs[n] = post_outs[n - 1]

\* the post-processing has been applied to its own output for a text in which
\* it collapsed a run of spaces and stripped the leading whitespace
C27_Witness ==
    /\ comp = "post"
    /\ Len(post_outs) >= 2
    /\ Len(post_text) = MaxPostLen
    /\ post_outs[1] = <<"y", " ", "y", "\n">>
    /\ IsSpace(post_text[1])
    /\ post_outs[1] # post_text

\* the rule file that belongs to a kind
OwnRules(kd) ==
    IF kd = "corpus_corporum"
    THEN [path |-> "CORPUS_CORPORUM_YAML_PATH", file |-> RulesCC]
    ELSE [path |-> "SCHOLASTIC_TEXT_YAML_PATH", file |-> RulesST]

\* the kind a call cleans as: the one its entry point stands for, or the one
\* clean_text was given
KindOfCall ==
    IF last.entry = "clean_corpus_corporum_text" THEN "corpus_corporum"
    ELSE IF last.entry = "clean_scholastic_text" THEN "scholastic_text"
    ELSE last.kind

\* C28: without a rules path (absent or None), through clean_text and through
\* the per-kind cleaners called directly, corpus_corporum cleaning loads the
\* corpus_corporum rule file and scholastic_text cleaning the scholastic_text
\* rule file, never the other kind's.
C28_EachKindLoadsItsOwnRules ==
    (InCleaner /\ last.rules_arg \in {"none", "omitted"}) =>
        /\ last.kd = KindOfCall
        /\ last.rules_path = OwnRules(KindOfCall).path
        /\ RuleNames(last.patterns.remove)
              = RuleNames(EnabledEntries(OwnRules(KindOfCall).file.remove_line_patterns))
        /\ RuleNames(last.patterns.substitute)
              = RuleNames(EnabledEntries(OwnRules(KindOfCall).file.substitute_patterns))

\* a direct call of clean_scholastic_text with yaml_path None has recorded
\* events of the scholastic_text rules
C28_Witness ==
    /\ InCleaner
    /\ last.entry = "clean_scholastic_text"
    /\ last.rules_arg = "none"
    /\ last.outcome = "ok"
    /\ last.events # <<>>
    /\ \A n \in 1..Len(last.events) :
          last.events[n].rule_name \in {"st_rm_xy", "st_rm_x", "st_sub_y", "st_sub_xx"}

TraceHeaderRows == {n \in 1..Len(trace_file.rows) : trace_file.rows[n] = TraceHeader}

\* C29: the trace log is rewritten: once a trace run on a non-empty text has
\* opened it, the file holds exactly one header row, the first, followed only
\* by rows of that run, whatever it held before; for an empty text the run
\* returns an empty counter, does not call the annotator and leaves the trace
\* file as it was (not created when there was none).
C29_TraceLogRewritten ==
    (comp = "stream" /\ cfg.mode = "trace" /\ pc \in {"loop", "done"}) =>
        IF text # <<>>
        THEN /\ trace_file.exists
             /\ TraceHeaderRows = {1}
             /\ \A n \in 2..Len(trace_file.rows) :
                   /\ trace_file.rows[n].label = cfg.label
                   /\ trace_file.rows[n].chunk \in 1..Len(chunks)
                   /\ trace_file.rows[n].global_row = n - 1
             /\ Len(trace_file.rows) - 1 <= SumHits(chunks, cfg)
        ELSE /\ pc = "done"
             /\ total = EmptyBag
             /\ nlp_calls = <<>>
             /\ trace_file = trace_before

\* a finished run that wrote a row into a file that held the rows of an
\* earlier run
C29_Witness ==
    /\ TraceDone
    /\ text # <<>>
    /\ trace_before = OldTraceFile
    /\ Len(trace_file.rows) >= 2

PipeDone == comp = "pipe" /\ pc = "done"

\* the calls of one stanza function in the log
CallsOf(fn) == SelectSeq(pipe_log, LAMBDA c : c.fn = fn)

\* the download calls the except clause makes: with the package, and after a
\* TypeError once more without it
DownloadCalls ==
    IF pipe_env.download = "TypeError"
    THEN <<DownloadCall(pipe_package), DownloadCall("omitted")>>
    ELSE <<DownloadCall(pipe_package)>>

DownloadFails ==
    \/ pipe_env.download = "raise"
    \/ pipe_env.download = "TypeError" /\ pipe_env.fallback = "raise"

\* what holds whether or not a download can fail: construction comes first; a
\* first success returns with no download; a first failure without
\* auto_download propagates with no download; never more than two constructions
PipeCommon ==
    /\ comp = "pipe" /\ pipe_log # <<>> => pipe_log[1] = PipelineCall(pipe_package)
    /\ comp = "pipe" => Len(CallsOf("Pipeline")) <= 2
    /\ PipeDone /\ pipe_env.first = "ok" =>
          pipe_log = <<PipelineCall(pipe_package)>> /\ pipe_result = "returned"
    /\ PipeDone /\ pipe_env.first = "raise" /\ ~pipe_args.auto_download =>
          pipe_log = <<PipelineCall(pipe_package)>> /\ pipe_result = "Pipeline raised"

\* C30 (as stated): construction is attempted first; if it fails without
\* auto_download the failure propagates with no download; if it fails with
\* auto_download a download is performed and then construction is retried
\* exactly once, a second failure propagating; no download after a first
\* success; at most two constructions per call.
C30_DownloadThenRetryOnce ==
    /\ PipeCommon
    /\ PipeDone /\ pipe_env.first = "raise" /\ pipe_args.auto_download =>
          /\ pipe_log = <<PipelineCall(pipe_package)>> \o DownloadCalls
                        \o <<PipelineCall(pipe_package)>>
          /\ pipe_result = IF pipe_env.second = "ok" THEN "returned" ELSE "Pipeline raised"

\* C30 (amended): as stated, except that a download that itself fails
\* propagates its failure and construction is then not retried.
C30_DownloadThenRetryOnceUnlessDownloadFails ==
    /\ PipeCommon
    /\ PipeDone /\ pipe_env.first = "raise" /\ pipe_args.auto_download =>
          IF DownloadFails
          THEN /\ pipe_log = <<PipelineCall(pipe_package)>> \o DownloadCalls
               /\ pipe_result = "download raised"
          ELSE /\ pipe_log = <<PipelineCall(pipe_package)>> \o DownloadCalls
                             \o <<PipelineCall(pipe_package)>>
               /\ pipe_result = IF pipe_env.second = "ok" THEN "returned"
                                ELSE "Pipeline raised"

\* with auto_download, the first construction failed, the download went
\* through on its second form, and the retry failed too
C30_Witness ==
    /\ PipeDone
    /\ pipe_args.auto_download
    /\ Len(pipe_log) = 4
    /\ Len(CallsOf("download")) = 2
    /\ pipe_result = "Pipeline raised"
    /\ pipe_package = "perseus"

=============================================================================
